---- MODULE Spec2Model ----
(***************************************************************************)
(* A model of the TRON MCP server: the network registry, the client cache, *)
(* the wallet resolver, the multicall aggregator, confirmation polling and *)
(* the tool handlers.  Strings the code inspects character by character    *)
(* (network identifiers, private keys, account indices) are sequences of   *)
(* one-character strings; values the code only passes along are tokens.    *)
(***************************************************************************)
EXTENDS Integers, Sequences, FiniteSets, TLC

\* ------------------------------------------------------------------------
\* Bounds of the model
\* ------------------------------------------------------------------------
MaxCalls == 2
MaxHandles == 3

\* ------------------------------------------------------------------------
\* Strings
\* ------------------------------------------------------------------------
S_mainnet == <<"m","a","i","n","n","e","t">>
S_Mainnet == <<"M","a","i","n","n","e","t">>
S_nile == <<"n","i","l","e">>
S_NILE == <<"N","I","L","E">>
S_shasta == <<"s","h","a","s","t","a">>
S_tron == <<"t","r","o","n">>
S_trx == <<"t","r","x">>
S_testnet == <<"t","e","s","t","n","e","t">>
S_Bogus == <<"B","o","g","u","s">>

UpperToLower ==
  [c \in {"A","B","C","D","E","F","G","H","I","J","K","L","M","N","O","P","Q",
          "R","S","T","U","V","W","X","Y","Z"} |->
     CASE c = "A" -> "a" [] c = "B" -> "b" [] c = "C" -> "c" [] c = "D" -> "d"
       [] c = "E" -> "e" [] c = "F" -> "f" [] c = "G" -> "g" [] c = "H" -> "h"
       [] c = "I" -> "i" [] c = "J" -> "j" [] c = "K" -> "k" [] c = "L" -> "l"
       [] c = "M" -> "m" [] c = "N" -> "n" [] c = "O" -> "o" [] c = "P" -> "p"
       [] c = "Q" -> "q" [] c = "R" -> "r" [] c = "S" -> "s" [] c = "T" -> "t"
       [] c = "U" -> "u" [] c = "V" -> "v" [] c = "W" -> "w" [] c = "X" -> "x"
       [] c = "Y" -> "y" [] c = "Z" -> "z"]

\* a variant that compares the identifier as it was typed
ToLowerCase_Identity(s) == s

\* String.prototype.toLowerCase
ToLowerCase(s) ==
  [i \in 1..Len(s) |-> IF s[i] \in DOMAIN UpperToLower THEN UpperToLower[s[i]] ELSE s[i]]

\* String.prototype.startsWith
StartsWith(s, p) == Len(s) >= Len(p) /\ SubSeq(s, 1, Len(p)) = p

\* String.prototype.slice(n)
SliceFrom(s, n) == SubSeq(s, n + 1, Len(s))

\* ------------------------------------------------------------------------
\* Network registry (chains.ts)
\* ------------------------------------------------------------------------
TronNetwork == {S_mainnet, S_nile, S_shasta}

NETWORKS ==
  [n \in TronNetwork |->
     CASE n = S_mainnet -> [name |-> "Mainnet", fullNode |-> "https://api.trongrid.io",
                            explorer |-> "https://tronscan.org"]
       [] n = S_nile    -> [name |-> "Nile", fullNode |-> "https://nile.trongrid.io",
                            explorer |-> "https://nile.tronscan.org"]
       [] n = S_shasta  -> [name |-> "Shasta", fullNode |-> "https://api.shasta.trongrid.io",
                            explorer |-> "https://shasta.tronscan.org"]]

DEFAULT_NETWORK == S_mainnet

\* a variant whose error names the lower-cased identifier
getNetworkConfig_NamesLowered(network) ==
  LET normalizedNetwork == ToLowerCase(network) IN
  IF normalizedNetwork \in TronNetwork
    THEN [threw |-> FALSE, config |-> NETWORKS[normalizedNetwork], error |-> << >>]
  ELSE IF normalizedNetwork = S_tron \/ normalizedNetwork = S_trx \/ normalizedNetwork = S_mainnet
    THEN [threw |-> FALSE, config |-> NETWORKS[S_mainnet], error |-> << >>]
  ELSE IF normalizedNetwork = S_testnet
    THEN [threw |-> FALSE, config |-> NETWORKS[S_nile], error |-> << >>]
  ELSE [threw |-> TRUE, config |-> [name |-> "none", fullNode |-> "none", explorer |-> "none"],
        error |-> <<"Unsupported network: ", normalizedNetwork>>]

\* getNetworkConfig: the config, or the error it throws
getNetworkConfig(network) ==
  LET normalizedNetwork == ToLowerCase(network) IN
  IF normalizedNetwork \in TronNetwork
    THEN [threw |-> FALSE, config |-> NETWORKS[normalizedNetwork], error |-> << >>]
  ELSE IF normalizedNetwork = S_tron \/ normalizedNetwork = S_trx \/ normalizedNetwork = S_mainnet
    THEN [threw |-> FALSE, config |-> NETWORKS[S_mainnet], error |-> << >>]
  ELSE IF normalizedNetwork = S_testnet
    THEN [threw |-> FALSE, config |-> NETWORKS[S_nile], error |-> << >>]
  ELSE [threw |-> TRUE, config |-> [name |-> "none", fullNode |-> "none", explorer |-> "none"],
        error |-> <<"Unsupported network: ", network>>]

\* The identifiers callers pass in this model
NetworkIds ==
  {S_mainnet, S_Mainnet, S_tron, S_trx, S_nile, S_NILE, S_testnet, S_shasta, S_Bogus}

\* ------------------------------------------------------------------------
\* Client cache (clients.ts)
\* ------------------------------------------------------------------------
VARIABLES
  clientCache,     \* Map<string, TronWeb>: cache key -> handle
  handleCount,     \* number of TronWeb handles constructed so far
  lastClient,      \* what the last getTronWeb / getWallet call returned or threw
  lastCall         \* which function of clients.ts / wallet.ts ran last, and how it ended

cacheVars == <<clientCache, handleCount, lastClient, lastCall>>

Call(op, outcome) == [op |-> op, outcome |-> outcome]
NoCall == Call("none", "none")
Ended(client) == IF client.threw THEN "threw" ELSE "returned"

NoClient == [threw |-> FALSE, id |-> 0, fullHost |-> "none", privateKey |-> << >>, error |-> << >>]

\* new TronWeb({fullHost, solidityNode, eventServer, privateKey?})
NewTronWeb(id, config, key) ==
  [threw |-> FALSE, id |-> id, fullHost |-> config.fullNode, privateKey |-> key, error |-> << >>]

ThrownClient(err) ==
  [threw |-> TRUE, id |-> 0, fullHost |-> "none", privateKey |-> << >>, error |-> err]

\* String(network), the cache key of getTronWeb
CacheKey(network) == network

\* a variant of getTronWeb that enters the key into the cache before the
\* network is resolved
getTronWebEffect_InsertsFirst(cache, count, network) ==
  LET cacheKey == CacheKey(network)
      r == getNetworkConfig(network)
      client == IF r.threw THEN NoClient ELSE NewTronWeb(count + 1, r.config, << >>)
  IN IF cacheKey \in DOMAIN cache
       THEN [client |-> cache[cacheKey], cache |-> cache, count |-> count]
       ELSE [client |-> IF r.threw THEN ThrownClient(r.error) ELSE client,
             cache |-> [k \in DOMAIN cache \cup {cacheKey} |->
                          IF k = cacheKey THEN client ELSE cache[k]],
             count |-> IF r.threw THEN count ELSE count + 1]

\* a variant of getTronWeb that never looks the key up
getTronWebEffect_NoLookup(cache, count, network) ==
  LET cacheKey == CacheKey(network)
      r == getNetworkConfig(network)
      client == NewTronWeb(count + 1, r.config, << >>)
  IN IF r.threw
       THEN [client |-> ThrownClient(r.error), cache |-> cache, count |-> count]
       ELSE [client |-> client,
             cache |-> [k \in DOMAIN cache \cup {cacheKey} |->
                          IF k = cacheKey THEN client ELSE cache[k]],
             count |-> count + 1]

\* getTronWeb as a function of the cache: the call's outcome and the cache after it
getTronWebEffect(cache, count, network) ==
  LET cacheKey == CacheKey(network) IN
  IF cacheKey \in DOMAIN cache
    THEN [client |-> cache[cacheKey], cache |-> cache, count |-> count]
  ELSE LET r == getNetworkConfig(network) IN
    IF r.threw
      THEN [client |-> ThrownClient(r.error), cache |-> cache, count |-> count]
    ELSE LET client == NewTronWeb(count + 1, r.config, << >>) IN
      [client |-> client,
       cache |-> [k \in DOMAIN cache \cup {cacheKey} |->
                    IF k = cacheKey THEN client ELSE cache[k]],
       count |-> count + 1]

\* a variant of getTronWeb that keeps no entry but the one it returns
getTronWeb_Evicting(network) ==
  LET e == getTronWebEffect(clientCache, handleCount, network) IN
    /\ e.count <= MaxHandles
    /\ clientCache' = [k \in DOMAIN e.cache \cap {CacheKey(network)} |-> e.cache[k]]
    /\ handleCount' = e.count
    /\ lastClient' = e.client
    /\ lastCall' = Call("getTronWeb", Ended(e.client))

\* getTronWeb(network)
getTronWeb(network) ==
  LET e == getTronWebEffect(clientCache, handleCount, network) IN
    /\ e.count <= MaxHandles
    /\ clientCache' = e.cache
    /\ handleCount' = e.count
    /\ lastClient' = e.client
    /\ lastCall' = Call("getTronWeb", Ended(e.client))

\* privateKey.startsWith('0x') ? privateKey.slice(2) : privateKey
CleanKey(privateKey) ==
  IF StartsWith(privateKey, <<"0","x">>) THEN SliceFrom(privateKey, 2) ELSE privateKey

\* a variant of getWallet that memoizes the signing handle like getTronWeb does
getWallet_Cached(privateKey, network) ==
  LET r == getNetworkConfig(network)
      client == NewTronWeb(handleCount + 1, r.config, CleanKey(privateKey))
  IN IF r.threw
       THEN /\ lastClient' = ThrownClient(r.error)
            /\ lastCall' = Call("getWallet", "threw")
            /\ UNCHANGED <<clientCache, handleCount>>
       ELSE /\ handleCount + 1 <= MaxHandles
            /\ lastClient' = client
            /\ lastCall' = Call("getWallet", "returned")
            /\ handleCount' = handleCount + 1
            /\ clientCache' = [k \in DOMAIN clientCache \cup {CacheKey(network)} |->
                                IF k = CacheKey(network) THEN client ELSE clientCache[k]]

\* getWallet(privateKey, network): a new handle with the key embedded, every call
getWallet(privateKey, network) ==
  LET r == getNetworkConfig(network)
      client == NewTronWeb(handleCount + 1, r.config, CleanKey(privateKey))
  IN IF r.threw
       THEN /\ lastClient' = ThrownClient(r.error)
            /\ lastCall' = Call("getWallet", "threw")
            /\ UNCHANGED <<clientCache, handleCount>>
       ELSE /\ handleCount + 1 <= MaxHandles
            /\ lastClient' = client
            /\ lastCall' = Call("getWallet", "returned")
            /\ handleCount' = handleCount + 1
            /\ UNCHANGED clientCache

CacheInit ==
  /\ clientCache = << >>
  /\ handleCount = 0
  /\ lastClient = NoClient
  /\ lastCall = NoCall

\* ------------------------------------------------------------------------
\* Wallet resolver (wallet.ts)
\* ------------------------------------------------------------------------
VARIABLES
  env,             \* process.env: TRON_PRIVATE_KEY, TRON_MNEMONIC, TRON_ACCOUNT_INDEX
  walletResult,    \* what the last getConfiguredWallet call returned or threw
  walletPc         \* "idle" before the call, "done" after it

walletVars == <<env, walletResult, walletPc>>

Unset == [set |-> FALSE, val |-> << >>]
EnvVal(s) == [set |-> TRUE, val |-> s]

\* JavaScript truthiness of process.env.X: set and not the empty string
Truthy(v) == v.set /\ v.val # << >>

Digits == {"0","1","2","3","4","5","6","7","8","9"}
DigitVal(c) ==
  CASE c = "0" -> 0 [] c = "1" -> 1 [] c = "2" -> 2 [] c = "3" -> 3 [] c = "4" -> 4
    [] c = "5" -> 5 [] c = "6" -> 6 [] c = "7" -> 7 [] c = "8" -> 8 [] c = "9" -> 9

NaN == [nan |-> TRUE, val |-> 0]
Num(n) == [nan |-> FALSE, val |-> n]

RECURSIVE SkipSpaces(_)
SkipSpaces(s) == IF s # << >> /\ Head(s) = " " THEN SkipSpaces(Tail(s)) ELSE s

RECURSIVE DigitPrefix(_, _, _)
\* value of the longest prefix of decimal digits; any = at least one digit seen
DigitPrefix(s, acc, any) ==
  IF s # << >> /\ Head(s) \in Digits
    THEN DigitPrefix(Tail(s), acc * 10 + DigitVal(Head(s)), TRUE)
    ELSE [any |-> any, val |-> acc]

\* parseInt(s, 10): leading blanks, an optional sign, then digits up to the
\* first character that is not one; NaN when there is no digit
ParseInt10(str) ==
  LET s == SkipSpaces(str)
      neg == s # << >> /\ Head(s) = "-"
      body == IF s # << >> /\ Head(s) \in {"-", "+"} THEN Tail(s) ELSE s
      d == DigitPrefix(body, 0, FALSE)
  IN IF d.any THEN Num(IF neg THEN 0 - d.val ELSE d.val) ELSE NaN

K_a1 == <<"a","1">>
K_0xa1 == <<"0","x","a","1">>
K_b2 == <<"b","2">>
K_zz == <<"z","z">>

\* keys secp256k1 accepts among the configured ones; every derived key is one
ValidRawKeys == {K_a1, K_b2}
IsDerivedKey(k) == Len(k) = 3 /\ k[1] = "d"

\* TronWeb.address.fromPrivateKey: the address, or false
fromPrivateKey(k) ==
  IF k \in ValidRawKeys \/ IsDerivedKey(k)
    THEN [ok |-> TRUE, val |-> <<"T">> \o k]
    ELSE [ok |-> FALSE, val |-> << >>]

M_one == <<"1">>
M_two == <<"2">>
M_bad == <<"x">>

\* bip39.validateMnemonic(mnemonic, wordlist)
validateMnemonic(m) == m \in {M_one, M_two}

IndexChar(n) ==
  CASE n = 0 -> "0" [] n = 1 -> "1" [] n = 2 -> "2" [] n = 3 -> "3" [] OTHER -> "9"

\* HDKey.fromMasterSeed(seed).derive(m/44'/195'/0'/0/index).privateKey, in hex
DeriveKey(m, accountIndex) == <<"d">> \o m \o <<IndexChar(accountIndex)>>

WalletOk(key, address) ==
  [threw |-> FALSE, privateKey |-> key, address |-> address, error |-> << >>]
WalletThrew(err) ==
  [threw |-> TRUE, privateKey |-> << >>, address |-> [ok |-> FALSE, val |-> << >>], error |-> err]

\* the account index check at the top of getConfiguredWallet
InvalidAccountIndex(accountIndex) == accountIndex.nan \/ accountIndex.val < 0

\* the branch taken when TRON_PRIVATE_KEY is truthy
FromConfiguredKey(privateKey) ==
  LET cleanKey == IF StartsWith(privateKey, <<"0","x">>) THEN SliceFrom(privateKey, 2)
                  ELSE privateKey
      address == fromPrivateKey(cleanKey)
  IN IF ~address.ok
       THEN WalletThrew(<<"Invalid private key provided in TRON_PRIVATE_KEY">>)
       ELSE WalletOk(cleanKey, address)

\* the branch taken when only TRON_MNEMONIC is truthy
FromConfiguredMnemonic(mnemonic, accountIndex) ==
  IF ~validateMnemonic(mnemonic)
    THEN WalletThrew(<<"Invalid mnemonic provided in TRON_MNEMONIC">>)
    ELSE LET privateKeyHex == DeriveKey(mnemonic, accountIndex) IN
           WalletOk(privateKeyHex, fromPrivateKey(privateKeyHex))

\* a variant that falls back to a built-in key when no secret is configured
NoSecretConfigured_Default == WalletOk(K_a1, fromPrivateKey(K_a1))

\* the branch taken when neither secret is truthy
NoSecretConfigured ==
  WalletThrew(<<"Neither TRON_PRIVATE_KEY nor TRON_MNEMONIC environment variable is set. ">>)

\* getConfiguredWallet()
getConfiguredWallet(e) ==
  LET accountIndexStr == IF Truthy(e.TRON_ACCOUNT_INDEX) THEN e.TRON_ACCOUNT_INDEX.val
                         ELSE <<"0">>
      accountIndex == ParseInt10(accountIndexStr)
  IN IF InvalidAccountIndex(accountIndex)
       THEN WalletThrew(<<"Invalid TRON_ACCOUNT_INDEX: ", accountIndexStr>>)
     ELSE IF Truthy(e.TRON_PRIVATE_KEY) THEN FromConfiguredKey(e.TRON_PRIVATE_KEY.val)
     ELSE IF Truthy(e.TRON_MNEMONIC)
       THEN FromConfiguredMnemonic(e.TRON_MNEMONIC.val, accountIndex.val)
     ELSE NoSecretConfigured

PrivateKeyConfigs == {Unset, EnvVal(<< >>), EnvVal(K_a1), EnvVal(K_0xa1), EnvVal(K_b2), EnvVal(K_zz)}
MnemonicConfigs == {Unset, EnvVal(<< >>), EnvVal(M_one), EnvVal(M_two), EnvVal(M_bad)}
AccountIndexConfigs ==
  {Unset, EnvVal(<< >>), EnvVal(<<"0">>), EnvVal(<<"1">>), EnvVal(<<"-","1">>),
   EnvVal(<<"1",".","5">>), EnvVal(<<"3","x">>), EnvVal(<<"a","b","c">>)}

Envs ==
  [TRON_PRIVATE_KEY : PrivateKeyConfigs, TRON_MNEMONIC : MnemonicConfigs,
   TRON_ACCOUNT_INDEX : AccountIndexConfigs]

NoWallet == WalletThrew(<<"not called">>)

WalletInit ==
  /\ env \in Envs
  /\ walletResult = NoWallet
  /\ walletPc = "idle"

\* one call of getConfiguredWallet under the process environment
ResolveWallet ==
  /\ walletPc = "idle"
  /\ walletResult' = getConfiguredWallet(env)
  /\ walletPc' = "done"
  /\ UNCHANGED env

\* the keys callers hand to getWallet
SignerKeys == {K_a1, K_0xa1, K_b2}

\* the host signMessage and signTypedData construct their handle with
SigningHost == [fullNode |-> "https://api.trongrid.io"]

\* what the awaited tronWeb.trx.sign / _signTypedData call can do
SignOutcomes == {"returned", "threw"}

\* signMessage and signTypedData: resolve the wallet, construct a temporary
\* handle with its key, sign (op names which of the two; signed is the
\* outcome of the awaited signing call)
SignWith(op, e, signed) ==
  LET w == getConfiguredWallet(e) IN
  IF w.threw
    THEN /\ lastClient' = ThrownClient(w.error)
         /\ lastCall' = Call(op, "threw")
         /\ UNCHANGED <<clientCache, handleCount>>
    ELSE /\ handleCount + 1 <= MaxHandles
         /\ lastClient' = NewTronWeb(handleCount + 1, SigningHost, w.privateKey)
         /\ lastCall' = Call(op, signed)
         /\ handleCount' = handleCount + 1
         /\ UNCHANGED clientCache

\* signMessage(message)
signMessage(signed) == SignWith("signMessage", env, signed)

\* signTypedData(domain, types, value): throws when the library has no
\* _signTypedData, after the handle was constructed
signTypedData(signed) == SignWith("signTypedData", env, signed)

\* ------------------------------------------------------------------------
\* Contract reads and the multicall aggregator (contracts.ts)
\* ------------------------------------------------------------------------
VARIABLES
  mcCalls,         \* params.calls
  mcAddress,       \* params.multicallAddress ("" when not supplied)
  mcVersion,       \* params.version
  mcGlobalAllow,   \* params.allowFailure
  mcNetwork,       \* the network argument
  mcPc,            \* "idle", "batch" (awaiting the batch call), "reads" (awaiting allSettled), "done"
  mcPath,          \* which path produced the result: "none", "batched", "fallback"
  mcRequest,       \* the call made on the batch contract, if any
  mcResponse,      \* what the batch call returned or threw
  mcSettled,       \* the fallback's reads: index -> pending / fulfilled / rejected
  mcResult,        \* the array multicall resolves to
  mcOutcome,       \* "pending", "resolved", "rejected"
  mcLog            \* console.error lines written by fallbackToSimulation

mcVars == <<mcCalls, mcAddress, mcVersion, mcGlobalAllow, mcNetwork, mcPc, mcPath,
            mcRequest, mcResponse, mcSettled, mcResult, mcOutcome, mcLog>>

\* The ABI every descriptor of the model carries: f() returns one unnamed
\* value, g(address) returns one value named timestamp; h is not in it.
TEST_ABI ==
  << [name |-> "f", type |-> "function", inputs |-> << >>,
      outputs |-> <<[name |-> "", type |-> "uint256"]>>],
     [name |-> "g", type |-> "function", inputs |-> <<"address">>,
      outputs |-> <<[name |-> "timestamp", type |-> "uint256"]>>] >>

NoFunc == [name |-> "", type |-> "none", inputs |-> << >>, outputs |-> << >>]

\* abi.find(i => i.name === functionName && i.type === "function")
AbiFind(abi, functionName) ==
  LET hits == {i \in 1..Len(abi) : abi[i].name = functionName /\ abi[i].type = "function"} IN
  IF hits = {} THEN [found |-> FALSE, func |-> NoFunc]
  ELSE [found |-> TRUE, func |-> abi[CHOOSE i \in hits : \A j \in hits : i <= j]]

Descriptor(fn, args) == [address |-> "TToken", functionName |-> fn, args |-> args,
                         allowFailure |-> "undefined"]

\* the descriptors callers pass in this model: two well-formed calls, a call
\* of a function missing from the ABI, and a call whose arguments do not fit
CallDescriptors ==
  {Descriptor("f", << >>), Descriptor("g", <<"TOwner">>), Descriptor("h", << >>),
   Descriptor("g", << >>)}

RECURSIVE SeqsUpTo(_, _)
SeqsUpTo(S, n) ==
  IF n = 0 THEN {<< >>}
  ELSE LET shorter == SeqsUpTo(S, n - 1) IN
       shorter \cup {Append(q, x) : q \in {r \in shorter : Len(r) = n - 1}, x \in S}

Fulfilled(v) == [status |-> "fulfilled", value |-> v, reason |-> << >>]
Rejected(r) == [status |-> "rejected", value |-> << >>, reason |-> r]
Pending == [status |-> "pending", value |-> << >>, reason |-> << >>]

\* what the chain answers to one read: a value, or an error message
ChainAnswers == {[ok |-> TRUE, data |-> <<"v1">>], [ok |-> FALSE, data |-> <<"REVERT">>]}

\* readContract(params, network) given the chain's answer to its call:
\* getTronWeb is outside the try, everything else is re-wrapped
readContract(call, network, cache, answer) ==
  LET tw == getTronWebEffect(cache, 0, network) IN
  IF tw.client.threw THEN Rejected(<<"Error: ">> \o tw.client.error)
  ELSE IF ~AbiFind(TEST_ABI, call.functionName).found
    THEN Rejected(<<"Error: ", "Read contract failed: ", "Function ", call.functionName,
                    " not found in contract">>)
  ELSE IF ~answer.ok
    THEN Rejected(<<"Error: ", "Read contract failed: ">> \o answer.data)
  ELSE Fulfilled(answer.data)

\* does the read fail before it reaches the chain?
ReadFailsEarly(call, network, cache) ==
  readContract(call, network, cache, [ok |-> TRUE, data |-> <<"v1">>]).status = "rejected"

EntryOk(result) == [success |-> TRUE, result |-> result, error |-> << >>]
EntryFailed(err) == [success |-> FALSE, result |-> << >>, error |-> err]

\* the mapping of one settled read in fallbackToSimulation
FallbackEntry(calls, result, idx) ==
  IF result.status = "fulfilled" THEN EntryOk(result.value)
  ELSE EntryFailed(<<"Call to ", calls[idx].functionName, " failed: ">> \o result.reason)

\* results.map((result, idx) => ...) over the settled reads
FallbackEntries(calls, settled) ==
  [idx \in 1..Len(calls) |-> FallbackEntry(calls, settled[idx], idx)]

\* utils.abi.encodeParams(types, values): throws unless the values fit the types
EncodeParams(types, values) ==
  IF Len(types) # Len(values)
    THEN [threw |-> TRUE, data |-> << >>, error |-> <<"types/values length mismatch">>]
    ELSE [threw |-> FALSE, data |-> values, error |-> << >>]

BoolStr(b) == IF b THEN "true" ELSE "false"

\* a variant that ignores the descriptor's own flag
CallAllowFailure_GlobalOnly(call, globalAllowFailure) == BoolStr(globalAllowFailure)

\* call.allowFailure !== undefined ? call.allowFailure : globalAllowFailure
CallAllowFailure(call, globalAllowFailure) ==
  IF call.allowFailure # "undefined" THEN call.allowFailure ELSE BoolStr(globalAllowFailure)

\* a variant of EncodeCall that encodes a call of a function missing from the
\* ABI as an empty payload instead of throwing
EncodeCall_SkipsMissing(call, version, globalAllowFailure) ==
  LET found == AbiFind(TEST_ABI, call.functionName)
      enc == EncodeParams(found.func.inputs, call.args)
      callData == <<"selector(", call.functionName, ")">> \o enc.data
  IN IF found.found /\ enc.threw
       THEN [threw |-> TRUE, func |-> NoFunc, callData |-> << >>, error |-> enc.error]
     ELSE [threw |-> FALSE, func |-> found.func, error |-> << >>,
           callData |-> IF version = 3
                          THEN <<call.address, CallAllowFailure(call, globalAllowFailure), callData>>
                          ELSE <<call.address, callData>>]

\* the body of calls.map in the batched attempt, for one descriptor
EncodeCall(call, version, globalAllowFailure) ==
  LET found == AbiFind(TEST_ABI, call.functionName)
      enc == EncodeParams(found.func.inputs, call.args)
      callData == <<"selector(", call.functionName, ")">> \o enc.data
  IN IF ~found.found
       THEN [threw |-> TRUE, func |-> NoFunc, callData |-> << >>,
             error |-> <<"Function ", call.functionName, " not found in ABI for ", call.address>>]
     ELSE IF enc.threw
       THEN [threw |-> TRUE, func |-> NoFunc, callData |-> << >>, error |-> enc.error]
     ELSE [threw |-> FALSE, func |-> found.func, error |-> << >>,
           callData |-> IF version = 3
                          THEN <<call.address, CallAllowFailure(call, globalAllowFailure), callData>>
                          ELSE <<call.address, callData>>]

\* callDataWithFuncs: the map stops at the first descriptor that throws
EncodeAll(calls, version, globalAllowFailure) ==
  LET each == [i \in 1..Len(calls) |-> EncodeCall(calls[i], version, globalAllowFailure)]
      bad == {i \in 1..Len(calls) : each[i].threw}
  IN IF bad # {}
       THEN [threw |-> TRUE, error |-> each[CHOOSE i \in bad : \A j \in bad : i <= j].error,
             items |-> << >>]
       ELSE [threw |-> FALSE, error |-> << >>, items |-> each]

\* the method and arguments of the batch call
BatchRequest(items, version, globalAllowFailure) ==
  LET encodedCalls == [i \in 1..Len(items) |-> items[i].callData] IN
  IF version = 3
    THEN [method |-> "aggregate3", requireSuccess |-> "absent", calls |-> encodedCalls]
    ELSE [method |-> "tryAggregate", requireSuccess |-> BoolStr(~globalAllowFailure),
          calls |-> encodedCalls]

NoRequest == [method |-> "none", requireSuccess |-> "absent", calls |-> << >>]

\* an optional parameter: given with a value, or left out
Arg(v) == [given |-> TRUE, val |-> v]
NoArg == [given |-> FALSE]

\* a destructuring default: { name = default } = params
OrDefault(arg, default) == IF arg.given THEN arg.val ELSE default

\* the request multicall sends to the batch contract for its parameters, once
\* the defaults of version and allowFailure are applied (NoRequest when the
\* encoding throws)
multicallRequest(calls, versionArg, allowFailureArg) ==
  LET version == OrDefault(versionArg, 3)
      globalAllowFailure == OrDefault(allowFailureArg, TRUE)
      enc == EncodeAll(calls, version, globalAllowFailure)
  IN IF enc.threw THEN NoRequest ELSE BatchRequest(enc.items, version, globalAllowFailure)

\* one record of the batch response; EmptyRecord is the empty array that an
\* unwrapped [[]] leaves as its only element (success and res[0] undefined)
Record(success, returnData) == [success |-> success, returnData |-> returnData]
EmptyRecord == Record(FALSE, "undefined")
Records == {Record(FALSE, "0x"), Record(TRUE, "0xv1"), Record(TRUE, "0xbad")}

BatchThrew(err) == [threw |-> TRUE, wrapped |-> FALSE, recs |-> << >>, error |-> err]
BatchReturned(wrapped, recs) == [threw |-> FALSE, wrapped |-> wrapped, recs |-> recs, error |-> << >>]
NoResponse == BatchThrew(<<"not called">>)

\* finalResults: results[0] when results is a one-element array holding an
\* array whose first element is an array or an object, results otherwise
FinalResults(resp) ==
  IF resp.wrapped
    THEN IF Len(resp.recs) >= 1 THEN resp.recs ELSE <<EmptyRecord>>
    ELSE resp.recs

\* utils.abi.decodeParams(names, types, data, true)
DecodeParams(outputs, returnData) ==
  IF returnData = "0xv1"
    THEN [threw |-> FALSE, error |-> << >>,
          decoded |-> [i \in 1..Len(outputs) |-> [name |-> outputs[i].name, value |-> "v1"]]]
    ELSE [threw |-> TRUE, error |-> <<"data out-of-bounds">>, decoded |-> << >>]

\* the shaping of a decoded value: a single unnamed output gives the raw
\* value, a single named output or several outputs give the decoded object
ShapeResult(outputs, decoded) ==
  IF Len(outputs) = 1 /\ decoded[1].name = ""
    THEN <<decoded[1].value>>
    ELSE <<"{">> \o [i \in 1..Len(decoded) |-> decoded[i].name] \o <<":">>
               \o [i \in 1..Len(decoded) |-> decoded[i].value] \o <<"}">>

NoEntry == EntryFailed(<<"TypeError">>)

\* the body of finalResults.map for the record at index
MapRecord(calls, items, res, index) ==
  IF ~res.success
    THEN IF index > Len(calls)
           THEN [threw |-> TRUE, entry |-> NoEntry]
           ELSE [threw |-> FALSE,
                 entry |-> EntryFailed(<<"Call to ", calls[index].functionName,
                                         " failed in multicall">>)]
  ELSE IF index > Len(items)
    THEN [threw |-> TRUE, entry |-> NoEntry]
  ELSE LET d == DecodeParams(items[index].func.outputs, res.returnData) IN
    IF d.threw
      THEN [threw |-> FALSE,
            entry |-> EntryFailed(<<"Failed to decode ", calls[index].functionName, ": ">>
                                  \o d.error)]
      ELSE [threw |-> FALSE, entry |-> EntryOk(ShapeResult(items[index].func.outputs, d.decoded))]

\* finalResults.map(...): the mapped array, or the TypeError that escapes it
MapAll(calls, items, finalResults) ==
  LET each == [i \in 1..Len(finalResults) |-> MapRecord(calls, items, finalResults[i], i)] IN
  IF \E i \in 1..Len(finalResults) : each[i].threw
    THEN [threw |-> TRUE, error |-> <<"Cannot read properties of undefined">>, entries |-> << >>]
    ELSE [threw |-> FALSE, error |-> << >>,
          entries |-> [i \in 1..Len(finalResults) |-> each[i].entry]]

\* a variant of the address test that always tries the batch contract
NoBatchAddress_Never(mAddress) == FALSE

\* if (!mAddress)
NoBatchAddress(mAddress) == mAddress = ""

\* calls.map(call => readContract(call, network)): every read runs up to its
\* first await; those that fail before it are rejected at once
IssueReads(calls, network, cache) ==
  [i \in 1..Len(calls) |->
     IF ReadFailsEarly(calls[i], network, cache)
       THEN readContract(calls[i], network, cache, [ok |-> TRUE, data |-> <<"v1">>])
       ELSE Pending]

\* fallbackToSimulation(error) up to Promise.allSettled
StartFallback(error) ==
  /\ mcLog' = IF error # << >>
                THEN Append(mcLog, <<"Multicall failed, falling back to simulation: ">> \o error)
                ELSE mcLog
  /\ mcPath' = "fallback"
  /\ mcPc' = "reads"
  /\ mcResult' = << >>
  /\ mcOutcome' = "pending"

McInit ==
  /\ mcCalls = << >>
  /\ mcAddress = ""
  /\ mcVersion = 3
  /\ mcGlobalAllow = TRUE
  /\ mcNetwork = DEFAULT_NETWORK
  /\ mcPc = "idle"
  /\ mcPath = "none"
  /\ mcRequest = NoRequest
  /\ mcResponse = NoResponse
  /\ mcSettled = << >>
  /\ mcResult = << >>
  /\ mcOutcome = "pending"
  /\ mcLog = << >>

\* multicall(params, network) up to its first await
MulticallCall(calls, mAddress, version, globalAllowFailure, network) ==
  /\ mcPc = "idle"
  /\ mcCalls' = calls
  /\ mcAddress' = mAddress
  /\ mcVersion' = version
  /\ mcGlobalAllow' = globalAllowFailure
  /\ mcNetwork' = network
  /\ mcResponse' = mcResponse
  /\ LET tw == getTronWebEffect(clientCache, handleCount, network)
         enc == EncodeAll(calls, version, globalAllowFailure)
     IN
     \* getTronWeb runs in multicall itself on the batched path, and in the
     \* first readContract on the fallback path
     /\ IF NoBatchAddress(mAddress) /\ calls = << >>
          THEN UNCHANGED cacheVars
          ELSE /\ clientCache' = tw.cache
               /\ handleCount' = tw.count
               /\ lastClient' = tw.client
               /\ lastCall' = Call("getTronWeb", Ended(tw.client))
     /\ IF NoBatchAddress(mAddress)
          THEN /\ StartFallback(<< >>)
               /\ mcSettled' = IssueReads(calls, network, tw.cache)
               /\ mcRequest' = NoRequest
        ELSE IF tw.client.threw
          THEN /\ mcOutcome' = "rejected"
               /\ mcPc' = "done"
               /\ mcResult' = << >>
               /\ UNCHANGED <<mcPath, mcRequest, mcSettled, mcLog>>
        ELSE IF enc.threw
          THEN /\ StartFallback(enc.error)
               /\ mcSettled' = IssueReads(calls, network, tw.cache)
               /\ mcRequest' = NoRequest
        ELSE /\ mcRequest' = BatchRequest(enc.items, version, globalAllowFailure)
             /\ mcPc' = "batch"
             /\ mcPath' = "batched"
             /\ UNCHANGED <<mcSettled, mcResult, mcOutcome, mcLog>>

CallLists == SeqsUpTo(CallDescriptors, MaxCalls)
RecordLists == SeqsUpTo(Records, MaxCalls + 1)

\* what a batch contract at this address can answer: a deployed batch
\* contract returns one record per call or the call fails; any other
\* address can fail or return any array of records
BatchResponses(mAddress, n) ==
  {BatchThrew(<<"REVERT opcode executed">>)}
  \cup {BatchReturned(w, recs) : w \in BOOLEAN,
        recs \in IF mAddress = "TMulticall"
                   THEN {r \in RecordLists : Len(r) = n}
                   ELSE {r \in RecordLists : Len(r) <= n + 1}}

\* the batch call settles: map the records, or fall back on anything thrown
BatchSettles(resp) ==
  /\ mcPc = "batch"
  /\ mcResponse' = resp
  /\ LET enc == EncodeAll(mcCalls, mcVersion, mcGlobalAllow)
         mapped == MapAll(mcCalls, enc.items, FinalResults(resp))
     IN IF resp.threw \/ mapped.threw
          THEN /\ StartFallback(IF resp.threw THEN resp.error ELSE mapped.error)
               /\ mcSettled' = IssueReads(mcCalls, mcNetwork, clientCache)
          ELSE /\ mcResult' = mapped.entries
               /\ mcOutcome' = "resolved"
               /\ mcPc' = "done"
               /\ UNCHANGED <<mcPath, mcSettled, mcLog>>
  /\ UNCHANGED <<mcCalls, mcAddress, mcVersion, mcGlobalAllow, mcNetwork, mcRequest>>
  /\ UNCHANGED cacheVars

\* one of the fallback's reads settles with the chain's answer
ReadSettles(i, answer) ==
  /\ mcPc = "reads"
  /\ i \in 1..Len(mcCalls)
  /\ mcSettled[i].status = "pending"
  /\ mcSettled' = [mcSettled EXCEPT ![i] = readContract(mcCalls[i], mcNetwork, clientCache, answer)]
  /\ UNCHANGED <<mcCalls, mcAddress, mcVersion, mcGlobalAllow, mcNetwork, mcPc, mcPath,
                 mcRequest, mcResponse, mcResult, mcOutcome, mcLog>>
  /\ UNCHANGED cacheVars

\* a variant that, like Promise.all, resolves as soon as one read is rejected
AllSettled_FailFast(settled) ==
  \/ \E i \in 1..Len(settled) : settled[i].status = "rejected"
  \/ \A i \in 1..Len(settled) : settled[i].status # "pending"

\* Promise.allSettled resolves once every read has settled
AllSettled(settled) == \A i \in 1..Len(settled) : settled[i].status # "pending"

\* the fallback maps the settled reads and multicall resolves
FallbackCompletes ==
  /\ mcPc = "reads"
  /\ AllSettled(mcSettled)
  /\ mcResult' = FallbackEntries(mcCalls, mcSettled)
  /\ mcOutcome' = "resolved"
  /\ mcPc' = "done"
  /\ UNCHANGED <<mcCalls, mcAddress, mcVersion, mcGlobalAllow, mcNetwork, mcPath,
                 mcRequest, mcResponse, mcSettled, mcLog>>
  /\ UNCHANGED cacheVars

BatchAddresses == {"", "TMulticall", "TOther"}
McNetworks == {S_nile, S_Bogus}

\* ------------------------------------------------------------------------
\* Confirmation polling (transactions.ts)
\* ------------------------------------------------------------------------
VARIABLES
  wtPc,            \* "idle", "lookup" (awaiting getTransactionInfo), "sleep", "returned", "thrown"
  wtNetwork,       \* the network argument
  wtI,             \* the loop variable i
  wtLookups,       \* number of getTransactionInfo calls issued
  wtElapsed,       \* milliseconds slept so far
  wtLast,          \* how the last lookup settled
  wtError          \* the error waitForTransaction rejected with

wtVars == <<wtPc, wtNetwork, wtI, wtLookups, wtElapsed, wtLast, wtError>>

maxAttempts == 30
interval == 2000
TxHash == "tx1"

\* how one getTransactionInfo call can settle: it throws, it returns the
\* empty object the node gives for an unknown hash, or it returns the record
LookupThrew == [threw |-> TRUE, truthy |-> FALSE, id |-> ""]
LookupEmpty == [threw |-> FALSE, truthy |-> TRUE, id |-> ""]
LookupRecord == [threw |-> FALSE, truthy |-> TRUE, id |-> TxHash]
NoLookup == [threw |-> FALSE, truthy |-> FALSE, id |-> ""]
LookupOutcomes == {LookupThrew, LookupEmpty, LookupRecord}

\* info && info.id
Confirmed(info) == ~info.threw /\ info.truthy /\ info.id # ""

\* a variant of the loop condition that is off by one
LoopContinues_OffByOne(i) == i <= maxAttempts

\* the loop condition i < maxAttempts
LoopContinues(i) == i < maxAttempts

TimeoutError == <<"Transaction ", TxHash, " not confirmed after ", maxAttempts * interval, "ms">>

WtInit ==
  /\ wtPc = "idle"
  /\ wtNetwork = DEFAULT_NETWORK
  /\ wtI = 0
  /\ wtLookups = 0
  /\ wtElapsed = 0
  /\ wtLast = NoLookup
  /\ wtError = << >>

\* the loop head: issue the next lookup, or throw the timeout error
LoopHead(i) ==
  IF LoopContinues(i)
    THEN /\ wtPc' = "lookup"
         /\ wtLookups' = wtLookups + 1
         /\ wtError' = wtError
    ELSE /\ wtPc' = "thrown"
         /\ wtLookups' = wtLookups
         /\ wtError' = TimeoutError

\* waitForTransaction(txHash, network) up to its first await
WaitStart(network) ==
  /\ wtPc = "idle"
  /\ wtNetwork' = network
  /\ getTronWeb(network)
  /\ wtI' = 0
  /\ IF lastClient'.threw
       THEN /\ wtPc' = "thrown"
            /\ wtError' = lastClient'.error
            /\ wtLookups' = wtLookups
       ELSE LoopHead(0)
  /\ UNCHANGED <<wtElapsed, wtLast>>

\* the awaited getTransactionInfo settles
LookupSettles(info) ==
  /\ wtPc = "lookup"
  /\ wtLast' = info
  /\ wtPc' = IF Confirmed(info) THEN "returned" ELSE "sleep"
  /\ UNCHANGED <<wtNetwork, wtI, wtLookups, wtElapsed, wtError>>
  /\ UNCHANGED cacheVars

\* the setTimeout of the loop body fires; i++ and back to the loop head
TimerFires ==
  /\ wtPc = "sleep"
  /\ wtElapsed' = wtElapsed + interval
  /\ wtI' = wtI + 1
  /\ LoopHead(wtI + 1)
  /\ UNCHANGED <<wtNetwork, wtLast>>
  /\ UNCHANGED cacheVars

WtNetworks == {S_mainnet, S_NILE, S_shasta, S_Bogus}

\* ------------------------------------------------------------------------
\* Tool handlers (tools.ts) and the services they call
\* ------------------------------------------------------------------------
VARIABLES
  hTool,           \* the tool invoked last
  hNetwork,        \* its network argument
  hPc,             \* "starting" before registration, "idle" between invocations, "done" after one
  hEnvelope,       \* what the handler resolved to
  hEscaped,        \* TRUE when an exception left the handler
  hTrace,          \* what the handler did, in order
  registeredTools  \* the server's tools: name -> the handler registered under it

hVars == <<hTool, hNetwork, hPc, hEnvelope, hEscaped, hTrace, registeredTools>>

Tools ==
  {"get_wallet_address", "get_chain_info", "get_supported_networks", "get_chain_parameters",
   "convert_address", "get_block", "get_latest_block", "get_balance", "get_token_balance",
   "get_transaction", "get_transaction_info", "read_contract", "write_contract",
   "transfer_trx", "transfer_trc20", "sign_message"}

\* Steps of a handler, in program order.  "wallet" is a getConfiguredWallet
\* call, "getTronWeb" the cached client, "getWallet" and "newSigner" the
\* construction of a client holding the private key, "networkConfig" a
\* getNetworkConfig call, "send" the submission of a transaction, "sign" the
\* signing call, "chain" a read from the node, "lib" a library call on the
\* caller's input that can throw.

\* a variant of writeContract that polls for the receipt before it returns
writeContractSteps_Waits == <<"getWallet", "chain", "lib", "send", "waitForTransaction">>

\* writeContract: getWallet, contract().at, the method lookup, send
writeContractSteps == <<"getWallet", "chain", "lib", "send">>

\* transferTRX: getWallet, toSun, sendTransaction, the check of its result
transferTRXSteps == <<"getWallet", "lib", "send", "lib">>

\* transferTRC20: getWallet, contract().at, transfer().send, symbol, decimals, formatting
transferTRC20Steps == <<"getWallet", "chain", "send", "chain", "chain", "lib">>

\* signMessage: getConfiguredWallet, new TronWeb with the key, trx.sign
signMessageSteps == <<"wallet", "newSigner", "sign">>

\* a variant in which the handlers call their service without resolving the wallet
WalletPrelude_Skipped(tool) == << >>

\* what a write or signing handler does before it calls its service:
\* getConfiguredPrivateKey and getWalletAddressFromKey, or the latter alone
WalletPrelude(tool) ==
  IF tool = "sign_message" THEN <<"wallet">> ELSE <<"wallet", "wallet">>

\* the body of each handler's try block
HandlerSteps(tool) ==
  CASE tool = "get_wallet_address" -> <<"wallet", "lib", "lib">>
    [] tool = "get_chain_info" -> <<"getTronWeb", "chain", "networkConfig", "lib">>
    [] tool = "get_supported_networks" -> << >>
    [] tool = "get_chain_parameters" -> <<"getTronWeb", "chain", "lib">>
    [] tool = "convert_address" -> <<"lib", "lib", "lib">>
    [] tool = "get_block" -> <<"getTronWeb", "chain">>
    [] tool = "get_latest_block" -> <<"getTronWeb", "chain">>
    [] tool = "get_balance" -> <<"lib", "networkConfig", "chain">>
    [] tool = "get_token_balance" -> <<"lib", "lib", "networkConfig", "chain", "chain", "chain">>
    [] tool = "get_transaction" -> <<"getTronWeb", "chain">>
    [] tool = "get_transaction_info" -> <<"getTronWeb", "chain">>
    [] tool = "read_contract" -> <<"getTronWeb", "chain", "lib", "chain">>
    [] tool = "write_contract" -> WalletPrelude(tool) \o writeContractSteps
    [] tool = "transfer_trx" -> WalletPrelude(tool) \o transferTRXSteps
    [] tool = "transfer_trc20" -> WalletPrelude(tool) \o transferTRC20Steps
    [] tool = "sign_message" -> WalletPrelude(tool) \o signMessageSteps

\* the prefix each handler's catch puts before the message
ErrorPrefix(tool) ==
  CASE tool = "get_wallet_address" -> "Error: "
    [] tool = "get_chain_info" -> "Error fetching chain info: "
    [] tool = "get_supported_networks" -> "Error: "
    [] tool = "get_chain_parameters" -> "Error fetching chain parameters: "
    [] tool = "convert_address" -> "Error converting address: "
    [] tool = "get_block" -> "Error fetching block: "
    [] tool = "get_latest_block" -> "Error fetching latest block: "
    [] tool = "get_balance" -> "Error fetching balance: "
    [] tool = "get_token_balance" -> "Error fetching token balance: "
    [] tool = "get_transaction" -> "Error fetching transaction: "
    [] tool = "get_transaction_info" -> "Error fetching transaction info: "
    [] tool = "read_contract" -> "Error reading contract: "
    [] tool = "write_contract" -> "Error writing to contract: "
    [] tool = "transfer_trx" -> "Error transferring TRX: "
    [] tool = "transfer_trc20" -> "Error transferring TRC20 tokens: "
    [] tool = "sign_message" -> "Error signing message: "

Fallible == {"chain", "lib", "send", "sign"}

\* the number of steps among the first n whose outcome the caller's input or
\* the node decides
FallibleUpTo(steps, n) == Cardinality({k \in 1..n : steps[k] \in Fallible})

\* does step n throw?  failAt names the fallible step the environment fails
\* (0 for none); the other steps are decided by the configuration
StepThrows(steps, n, walletThrew, networkThrew, failAt) ==
  CASE steps[n] = "wallet" -> walletThrew
    [] steps[n] \in {"getTronWeb", "getWallet", "networkConfig"} -> networkThrew
    [] steps[n] = "newSigner" -> FALSE
    [] OTHER -> FallibleUpTo(steps, n) = failAt

\* the first step that throws, or Len(steps) + 1 when the try block completes
FirstThrow(steps, walletThrew, networkThrew, failAt) ==
  LET bad == {n \in 1..Len(steps) : StepThrows(steps, n, walletThrew, networkThrew, failAt)}
  IN IF bad = {} THEN Len(steps) + 1 ELSE CHOOSE n \in bad : \A m \in bad : n <= m

\* what the handler did: every step entered, with "threw" after the one that threw
TraceOf(steps, stop) ==
  IF stop > Len(steps) THEN steps ELSE SubSeq(steps, 1, stop) \o <<"threw">>

\* a variant in which the sign_message handler has no try/catch
CaughtByHandler_SignUnguarded(tool) == tool # "sign_message"

\* try { ... } catch: every statement of every handler is inside its try
CaughtByHandler(tool) == TRUE

OkEnvelope(tool) == [isError |-> "undefined", text |-> <<"result of ", tool>>]
ErrorEnvelope(tool, step) == [isError |-> "true", text |-> <<ErrorPrefix(tool), step, " failed">>]
NoEnvelope == [isError |-> "undefined", text |-> << >>]

\* the clients the first n steps construct or fetch: a handler fetches the
\* cached client at most once and builds at most one client holding the key
ClientsAfter(steps, n, cache, count, network) ==
  LET fetched == IF \E k \in 1..n : steps[k] = "getTronWeb"
                   THEN getTronWebEffect(cache, count, network)
                   ELSE [client |-> NoClient, cache |-> cache, count |-> count]
      built == \/ \E k \in 1..n : steps[k] = "newSigner"
               \/ \E k \in 1..n : steps[k] = "getWallet" /\ ~getNetworkConfig(network).threw
  IN [cache |-> fetched.cache, count |-> fetched.count + (IF built THEN 1 ELSE 0)]

\* the server.registerTool calls of registerTRONTools, in program order, each
\* with the line of tools.ts at which its handler starts
Registration(name, handler) == [name |-> name, handler |-> handler]
ToolRegistrations ==
  <<Registration("get_wallet_address", 42), Registration("get_chain_info", 98),
    Registration("get_supported_networks", 143), Registration("get_chain_parameters", 181),
    Registration("convert_address", 241), Registration("get_block", 294),
    Registration("get_latest_block", 338), Registration("get_balance", 376),
    Registration("get_token_balance", 426), Registration("get_transaction", 485),
    Registration("get_transaction_info", 519), Registration("read_contract", 562),
    Registration("write_contract", 627), Registration("transfer_trx", 699),
    Registration("transfer_trc20", 755), Registration("sign_message", 815)>>

\* server.registerTool(name, config, handler) on a registry; a name that is
\* already registered keeps its first handler (the server throws)
registerTool(registry, r) ==
  IF r.name \in DOMAIN registry THEN registry
  ELSE [n \in DOMAIN registry \cup {r.name} |-> IF n = r.name THEN r.handler ELSE registry[n]]

\* the registry after the first n registrations
RECURSIVE RegisteredAfter(_)
RegisteredAfter(n) ==
  IF n = 0 THEN << >> ELSE registerTool(RegisteredAfter(n - 1), ToolRegistrations[n])

HInit ==
  /\ hTool = "none"
  /\ hNetwork = DEFAULT_NETWORK
  /\ hPc = "starting"
  /\ hEnvelope = NoEnvelope
  /\ hEscaped = FALSE
  /\ hTrace = << >>
  /\ registeredTools = << >>

\* registerTRONTools(server), at startup
registerTRONTools ==
  /\ hPc = "starting"
  /\ registeredTools' = RegisteredAfter(Len(ToolRegistrations))
  /\ hPc' = "idle"
  /\ UNCHANGED <<hTool, hNetwork, hEnvelope, hEscaped, hTrace>>

FallibleCount == [tool \in Tools |-> FallibleUpTo(HandlerSteps(tool), Len(HandlerSteps(tool)))]

\* the run of each handler's try block, by what the configuration and the
\* environment make of its steps
HandlerRun ==
  [tool \in Tools |->
     [walletThrew \in BOOLEAN, networkThrew \in BOOLEAN, failAt \in 0..FallibleCount[tool] |->
        LET steps == HandlerSteps(tool)
            stop == FirstThrow(steps, walletThrew, networkThrew, failAt)
        IN [ran |-> IF stop > Len(steps) THEN Len(steps) ELSE stop,
            completed |-> stop > Len(steps),
            threwAt |-> IF stop > Len(steps) THEN "none" ELSE steps[stop],
            trace |-> TraceOf(steps, stop)]]]

WalletThrows == [e \in Envs |-> getConfiguredWallet(e).threw]
NetworkThrows == [n \in NetworkIds |-> getNetworkConfig(n).threw]

\* one invocation of a registered handler, from the call to its return
InvokeTool(tool, network, failAt) ==
  LET run == HandlerRun[tool][WalletThrows[env], NetworkThrows[network], failAt]
      clients == ClientsAfter(HandlerSteps(tool), run.ran, clientCache, handleCount, network)
  IN /\ hPc = "idle"
     /\ tool \in DOMAIN registeredTools
     /\ clients.count <= MaxHandles
     /\ hTool' = tool
     /\ hNetwork' = network
     /\ hPc' = "done"
     /\ hTrace' = run.trace
     /\ IF run.completed
          THEN hEnvelope' = OkEnvelope(tool) /\ hEscaped' = FALSE
        ELSE IF CaughtByHandler(tool)
          THEN hEnvelope' = ErrorEnvelope(tool, run.threwAt) /\ hEscaped' = FALSE
        ELSE hEnvelope' = NoEnvelope /\ hEscaped' = TRUE
     /\ clientCache' = clients.cache
     /\ handleCount' = clients.count
     /\ UNCHANGED <<lastClient, lastCall, registeredTools>>
     /\ UNCHANGED walletVars

\* the front-end takes the envelope; the next request can be served
HandlerReturns ==
  /\ hPc = "done"
  /\ hTool' = "none"
  /\ hNetwork' = DEFAULT_NETWORK
  /\ hPc' = "idle"
  /\ hEnvelope' = NoEnvelope
  /\ hEscaped' = FALSE
  /\ hTrace' = << >>
  /\ UNCHANGED <<cacheVars, walletVars, registeredTools>>

ToolNetworks == {S_mainnet, S_tron, S_Bogus}
ToolEnvs ==
  [TRON_PRIVATE_KEY : {Unset, EnvVal(K_0xa1), EnvVal(K_zz)},
   TRON_MNEMONIC : {Unset, EnvVal(M_one), EnvVal(M_bad)},
   TRON_ACCOUNT_INDEX : {Unset, EnvVal(<<"-","1">>)}]

\* ------------------------------------------------------------------------
\* Calls of the synchronous functions (chains.ts, address.ts, balance.ts)
\* ------------------------------------------------------------------------
VARIABLES
  fnName,          \* the function called last ("none" before any call)
  fnArgs,          \* the arguments it was called with
  fnResult         \* what it returned or threw

fnVars == <<fnName, fnArgs, fnResult>>

FnInit ==
  /\ fnName = "none"
  /\ fnArgs = << >>
  /\ fnResult = << >>

\* one call of a function: record the arguments and the outcome
Returns(name, args, result) ==
  /\ fnName' = name
  /\ fnArgs' = args
  /\ fnResult' = result

\* a parameter the caller left out
Omitted == <<"undefined">>

\* the upper-case letter of a lower-case one
ToUpperChar(c) ==
  IF \E u \in DOMAIN UpperToLower : UpperToLower[u] = c
    THEN CHOOSE u \in DOMAIN UpperToLower : UpperToLower[u] = c
    ELSE c

\* every spelling of a word in upper and lower case
RECURSIVE CaseVariants(_)
CaseVariants(s) ==
  IF s = << >> THEN {<< >>}
  ELSE {<<h>> \o t : h \in {s[1], ToUpperChar(s[1])}, t \in CaseVariants(Tail(s))}

\* identifiers that are no network: near misses of the names and aliases
UnknownIds ==
  {S_Bogus, << >>, <<"m","a","i","n">>, <<"m","a","i","n","n","e","t"," ">>,
   <<" ","n","i","l","e">>, <<"t","r","o","n","n">>, <<"T","R","X","1">>,
   <<"t","e","s","t">>, <<"S","h","a","s","t","a","_">>, <<"i","n","v","a","l","i","d","_","n","e","t","w","o","r","k">>}

\* the identifiers handed to getNetworkConfig: every spelling of the names
\* and aliases, the unknown ones, and none at all
RegistryInputs ==
  UNION {CaseVariants(w) : w \in {S_mainnet, S_nile, S_shasta, S_tron, S_trx, S_testnet}}
    \cup UnknownIds \cup {Omitted}

\* getNetworkConfig(network = DEFAULT_NETWORK) as callers invoke it
getNetworkConfigCall(arg) ==
  Returns("getNetworkConfig", <<arg>>,
          getNetworkConfig(IF arg = Omitted THEN DEFAULT_NETWORK ELSE arg))

\* ------------------------------------------------------------------------
\* Address conversion (address.ts over TronWeb.address)
\* ------------------------------------------------------------------------
HexAlphabet == <<"0","1","2","3","4","5","6","7","8","9","a","b","c","d","e","f">>
HexDigits == {HexAlphabet[i] : i \in 1..16} \cup {"A","B","C","D","E","F"}

\* TronWeb utils.isHex: /^(0x|)[a-fA-F0-9]+$/
IsHexString(s) ==
  LET body == IF StartsWith(s, <<"0","x">>) THEN SliceFrom(s, 2) ELSE s IN
  body # << >> /\ \A i \in 1..Len(body) : body[i] \in HexDigits

ADDRESS_PREFIX == <<"4","1">>

\* String.prototype.replace(/^0x/, ADDRESS_PREFIX)
ReplaceLeading0x(s) ==
  IF StartsWith(s, <<"0","x">>) THEN ADDRESS_PREFIX \o SliceFrom(s, 2) ELSE s

\* hexStr2byteArray: the bytes, written as lower-case hex digits
hexStr2byteArray(s) == ToLowerCase(s)

\* Base58Check is stood for by an injective encoding of the byte string: a
\* leading character, 'T' exactly for 21 bytes that start with 0x41, and
\* one character of the Base58 alphabet per hex digit, last digit first
B58Alphabet == <<"1","2","3","4","5","6","7","8","9","A","B","C","D","E","F","G">>
HexIndex(c) == CHOOSE i \in 1..16 : HexAlphabet[i] = c
B58Index(c) == CHOOSE i \in 1..16 : B58Alphabet[i] = c
LeadChar(bytes) ==
  IF Len(bytes) = 42 /\ StartsWith(bytes, ADDRESS_PREFIX) THEN "T" ELSE "6"

\* utils.crypto.getBase58CheckAddress
getBase58CheckAddress(bytes) ==
  <<LeadChar(bytes)>> \o [i \in 1..Len(bytes) |-> B58Alphabet[HexIndex(bytes[Len(bytes) + 1 - i])]]

\* utils.crypto.decodeBase58Address followed by byteArray2hexStr(...).toLowerCase()
decodeBase58Address(a) ==
  LET body == Tail(a) IN [i \in 1..Len(body) |-> HexAlphabet[B58Index(body[Len(body) + 1 - i])]]

\* TronWeb.address.fromHex
AddressFromHex(address) ==
  IF ~IsHexString(address) THEN address
  ELSE getBase58CheckAddress(hexStr2byteArray(ReplaceLeading0x(address)))

\* TronWeb.address.toHex
AddressToHex(address) ==
  IF IsHexString(address) THEN ReplaceLeading0x(ToLowerCase(address))
  ELSE decodeBase58Address(address)

\* toHexAddress(address)
toHexAddress(address) ==
  IF StartsWith(address, <<"T">>) THEN AddressToHex(address) ELSE address

\* a variant of toBase58Address without the branch for the 41 prefix
toBase58Address_Only0x(address) ==
  IF StartsWith(address, <<"0","x">>) THEN AddressFromHex(address) ELSE address

\* toBase58Address(address)
toBase58Address(address) ==
  IF StartsWith(address, <<"4","1">>) THEN AddressFromHex(address)
  ELSE IF StartsWith(address, <<"0","x">>) THEN AddressFromHex(address)
  ELSE address

\* 20-byte addresses: a first byte, three digits in either case, and a fixed rest
BodyRest ==
  <<"7","1","d","5","7","d","d","1","3","1","2","1","4","a","f","6","4","5","e","8",
    "d","5","d","4","d","3","8","f","5","1","e","5","1","2","c">>
Bodies ==
  {h \o m \o BodyRest : h \in {<<"4","1">>, <<"e","9">>, <<"0","0">>, <<"a","b">>},
                         m \in CaseVariants(<<"e","9","c">>)}

\* the four hex spellings of a 20-byte address
Spellings(x) == {x, <<"0","x">> \o x, ADDRESS_PREFIX \o x, <<"0","x">> \o ADDRESS_PREFIX \o x}

\* the Base58 form of a 20-byte address
Base58Of(x) == getBase58CheckAddress(ADDRESS_PREFIX \o ToLowerCase(x))

HexInputs == UNION {Spellings(x) : x \in Bodies}
Base58Inputs == {Base58Of(x) : x \in Bodies}

toHexAddressCall(address) == Returns("toHexAddress", <<address>>, toHexAddress(address))
toBase58AddressCall(address) == Returns("toBase58Address", <<address>>, toBase58Address(address))

\* ------------------------------------------------------------------------
\* Balance query (balance.ts, and the get_balance handler of tools.ts)
\* ------------------------------------------------------------------------
Undefined == Omitted

\* bigint.toString(): the decimal digits of a non-negative integer
RECURSIVE ToDigits(_)
ToDigits(n) ==
  IF n < 10 THEN <<HexAlphabet[n + 1]>> ELSE ToDigits(n \div 10) \o <<HexAlphabet[(n % 10) + 1]>>

\* String.prototype.padStart(len, '0')
RECURSIVE PadStart(_, _)
PadStart(s, len) == IF Len(s) >= len THEN s ELSE PadStart(<<"0">> \o s, len)

\* String.prototype.replace(/(0+)$/, '')
RECURSIVE StripTrailingZeros(_)
StripTrailingZeros(s) ==
  IF s # << >> /\ s[Len(s)] = "0" THEN StripTrailingZeros(SubSeq(s, 1, Len(s) - 1)) ELSE s

\* viem formatUnits(value, decimals), for value >= 0
formatUnits(value, decimals) ==
  LET display == PadStart(ToDigits(value), decimals)
      integer == SubSeq(display, 1, Len(display) - decimals)
      fraction == StripTrailingZeros(SubSeq(display, Len(display) - decimals + 1, Len(display)))
  IN (IF integer = << >> THEN <<"0">> ELSE integer)
       \o (IF fraction = << >> THEN << >> ELSE <<".">> \o fraction)

\* the decimals formatEther formats with
etherDecimals == 18

\* formatEther(wei)
formatEther(wei) == formatUnits(wei, etherDecimals)

\* what the awaited calls of getTRXBalance can do: they throw, or the chain
\* reports a balance
ChainThrew == [threw |-> TRUE, balance |-> 0]
ChainBalance(n) == [threw |-> FALSE, balance |-> n]
BalanceOutcomes ==
  {ChainThrew} \cup {ChainBalance(n) : n \in (0..120) \cup {1000, 1000000, 1500000, 2000000000}}

Fulfil(value) == [threw |-> FALSE, value |-> value, error |-> << >>]
Reject(error) == [threw |-> TRUE, value |-> Undefined, error |-> error]

\* getTRXBalance(addressOrEns, network): {wei, ether}
getTRXBalance(outcome) ==
  IF outcome.threw THEN Reject(<<"balance query failed">>)
  ELSE Fulfil([wei |-> outcome.balance, ether |-> formatEther(outcome.balance)])

\* obj.key, undefined when the object has no such property
Prop(obj, key) == IF key \in DOMAIN obj THEN obj[key] ELSE Undefined

\* JSON.stringify of an object: properties whose value is undefined are left out
JsonObject(obj) == [k \in {key \in DOMAIN obj : obj[key] # Undefined} |-> obj[k]]

\* the get_balance handler
get_balance(address, network, outcome) ==
  LET balance == getTRXBalance(outcome) IN
  IF balance.threw
    THEN [isError |-> "true", text |-> <<"Error fetching balance: ">> \o balance.error,
          json |-> Undefined]
    ELSE [isError |-> "undefined", text |-> << >>,
          json |-> [network |-> network, address |-> address,
                    balance |-> JsonObject([sun |-> ToDigits(balance.value.wei),
                                            trx |-> Prop(balance.value, "formatted")])]]

getTRXBalanceCall(outcome) == Returns("getTRXBalance", <<outcome>>, getTRXBalance(outcome))
get_balanceCall(outcome) ==
  Returns("get_balance", <<outcome>>, get_balance(<<"T","a","d","d","r">>, S_nile, outcome))

\* ------------------------------------------------------------------------
\* The batch request of multicall, by its parameters
\* ------------------------------------------------------------------------
\* descriptors with and without a failure-tolerance flag of their own
FlaggedDescriptors ==
  {[d EXCEPT !.allowFailure = a] :
     d \in {Descriptor("f", << >>), Descriptor("g", <<"TOwner">>)},
     a \in {"undefined", "true", "false"}}
FlaggedCallLists == SeqsUpTo(FlaggedDescriptors, 2) \ {<< >>}
VersionArgs == {NoArg, Arg(2), Arg(3)}
AllowFailureArgs == {NoArg, Arg(TRUE), Arg(FALSE)}

multicallRequestCall(calls, versionArg, allowFailureArg) ==
  Returns("multicall", <<calls, versionArg, allowFailureArg>>,
          multicallRequest(calls, versionArg, allowFailureArg))

\* ------------------------------------------------------------------------
\* The TRC20 transfer (transfer.ts)
\* ------------------------------------------------------------------------
\* how an awaited call on the token contract can settle
CallThrew == [threw |-> TRUE, value |-> Undefined]
CallGave(v) == [threw |-> FALSE, value |-> v]

\* BigInt(amount) for a string of decimal digits
BigIntOf(str) == DigitPrefix(str, 0, FALSE).val

\* transferTRC20(tokenAddress, to, amount, privateKey, network) over a
\* supported network, by how its four awaited calls settle: the calls it
\* made in order, the arguments it submitted, and what it returned or threw
transferTRC20(to, amount, at, send, symbol, decimals) ==
  LET failed(calls, sent) ==
        [threw |-> TRUE, value |-> Undefined, error |-> <<"Failed to transfer TRC20: ", calls[Len(calls)]>>,
         calls |-> calls, submitted |-> sent]
  IN IF at.threw THEN failed(<<"at">>, << >>)
     ELSE IF send.threw THEN failed(<<"at", "send">>, << >>)
     ELSE IF symbol.threw THEN failed(<<"at", "send", "symbol">>, <<to, amount>>)
     ELSE IF decimals.threw THEN failed(<<"at", "send", "symbol", "decimals">>, <<to, amount>>)
     ELSE [threw |-> FALSE, error |-> << >>,
           calls |-> <<"at", "send", "symbol", "decimals">>,
           submitted |-> <<to, amount>>,
           value |-> [txHash |-> send.value,
                      amount |-> [raw |-> amount,
                                  formatted |-> formatUnits(BigIntOf(amount), decimals.value)],
                      token |-> [symbol |-> symbol.value, decimals |-> decimals.value]]]

Recipients == {"TRecipient", "TOther"}
Amounts == {ToDigits(n) : n \in {0, 1, 25, 1500000}}
SendOutcomes == {CallThrew, CallGave("txid1")}
SymbolOutcomes == {CallThrew, CallGave("USDT")}
DecimalsOutcomes == {CallThrew, CallGave(0), CallGave(6)}

transferTRC20Call(to, amount, at, send, symbol, decimals) ==
  Returns("transferTRC20", <<to, amount, at, send, symbol, decimals>>,
          transferTRC20(to, amount, at, send, symbol, decimals))

\* ------------------------------------------------------------------------
\* The get_block handler (tools.ts over blocks.ts)
\* ------------------------------------------------------------------------
\* a decimal numeral without its leading zeros
RECURSIVE StripLeadingZeros(_)
StripLeadingZeros(s) ==
  IF Len(s) > 1 /\ s[1] = "0" THEN StripLeadingZeros(Tail(s)) ELSE s

\* the index after the run of characters of set S that starts at index i
RECURSIVE AfterRun(_, _, _)
AfterRun(s, i, S) == IF i <= Len(s) /\ s[i] \in S THEN AfterRun(s, i + 1, S) ELSE i

HasAt(s, i, S) == i <= Len(s) /\ s[i] \in S

\* StrDecimalLiteral: [sign] (digits [. [digits]] | . digits) [e [sign] digits]
IsDecimalLiteral(s) ==
  LET a == IF HasAt(s, 1, {"+", "-"}) THEN 2 ELSE 1
      b == AfterRun(s, a, Digits)
      dot == HasAt(s, b, {"."})
      c == IF dot THEN AfterRun(s, b + 1, Digits) ELSE b
      mantissa == b > a \/ (dot /\ c > b + 1)
      e1 == IF HasAt(s, c + 1, {"+", "-"}) THEN c + 2 ELSE c + 1
      d == IF HasAt(s, c, {"e", "E"})
             THEN (IF AfterRun(s, e1, Digits) > e1 THEN AfterRun(s, e1, Digits) ELSE 0)
             ELSE c
  IN mantissa /\ d = Len(s) + 1

\* 0x or 0X followed by hex digits and nothing else
IsHexLiteral(s) ==
  /\ Len(s) > 2
  /\ s[1] = "0" /\ s[2] \in {"x", "X"}
  /\ AfterRun(s, 3, HexDigits) = Len(s) + 1

\* isNaN(Number(str)): Number takes the blank string as 0, a decimal literal
\* or a hex literal, and gives NaN for anything else
IsNaNNumber(str) ==
  LET s == SkipSpaces(str) IN
  ~(s = << >> \/ IsDecimalLiteral(s) \/ IsHexLiteral(s))

\* the value of a short run of hex digits
RECURSIVE HexValue(_, _)
HexValue(s, acc) ==
  IF s = << >> THEN acc
  ELSE HexValue(Tail(s), acc * 16 + (CHOOSE i \in 0..15 : HexAlphabet[i + 1] = ToLowerCase(<<Head(s)>>)[1]))

NotANumber == [nan |-> TRUE, neg |-> FALSE, digits |-> << >>]
Integer(neg, digits) == [nan |-> FALSE, neg |-> neg /\ digits # <<"0">>, digits |-> digits]

\* parseInt(str) without a radix: blanks, a sign, then hex digits after 0x or
\* 0X, decimal digits otherwise, up to the first character that is none;
\* the integer is written as its decimal numeral
parseInt(str) ==
  LET s == SkipSpaces(str)
      neg == HasAt(s, 1, {"-"})
      body == IF HasAt(s, 1, {"+", "-"}) THEN Tail(s) ELSE s
      hex == HasAt(body, 1, {"0"}) /\ HasAt(body, 2, {"x", "X"})
      run == IF hex THEN SubSeq(body, 3, AfterRun(body, 3, HexDigits) - 1)
             ELSE SubSeq(body, 1, AfterRun(body, 1, Digits) - 1)
  IN IF run = << >> THEN NotANumber
     ELSE IF hex THEN Integer(neg, ToDigits(HexValue(run, 0)))
     ELSE Integer(neg, StripLeadingZeros(run))

\* getBlockByHash(blockHash, network) and getBlockByNumber(blockNumber, network)
getBlockByHash(blockHash, network) == [by |-> "hash", hash |-> blockHash, network |-> network]
getBlockByNumber(blockNumber, network) == [by |-> "number", number |-> blockNumber, network |-> network]

\* the get_block handler: the lookups it makes
get_block(blockIdentifier, networkArg) ==
  LET network == IF networkArg = Omitted THEN S_mainnet ELSE networkArg IN
  IF StartsWith(blockIdentifier, <<"0","x">>)
       \/ (Len(blockIdentifier) > 20 /\ IsNaNNumber(blockIdentifier))
    THEN <<getBlockByHash(blockIdentifier, network)>>
    ELSE <<getBlockByNumber(parseInt(blockIdentifier), network)>>

\* n copies of a character
Repeat(c, n) == [i \in 1..n |-> c]

\* identifiers: short numerals and near-numerals, and strings of 20, 21 and
\* 64 characters, bare and behind 0x, made of one digit or letter after a
\* short head
ShortIds ==
  {<<"0">>, <<"1","2","3">>, <<"0","0","7">>, <<"+","5">>, <<"-","1">>, <<"1",".","5">>,
   <<"1","e","3">>, <<"1","2","a","b","c">>, <<"a","b","c">>, << >>, <<" ","4","2">>,
   <<"0","X","1","A">>, <<"0","x","1","a">>, <<"l","a","t","e","s","t">>}
LongBodies ==
  {head \o Repeat(fill, n - Len(head)) :
     head \in {<< >>, <<"4">>, <<"4","e">>, <<"4","f">>}, fill \in {"0", "7", "a", "e"},
     n \in {20, 21, 64}}
BlockIds == ShortIds \cup LongBodies \cup {<<"0","x">> \o b : b \in LongBodies}

get_blockCall(blockIdentifier, networkArg) ==
  Returns("get_block", <<blockIdentifier, networkArg>>, get_block(blockIdentifier, networkArg))

\* ------------------------------------------------------------------------
\* The get_chain_info handler (tools.ts over blocks.ts and chains.ts)
\* ------------------------------------------------------------------------
\* getChainId(network): the identifier compared with the three names
getChainId(network) ==
  IF network = S_mainnet THEN 728126428
  ELSE IF network = S_nile THEN 20191029
  ELSE IF network = S_shasta THEN 1
  ELSE 0

\* getRpcUrl(network) = getNetworkConfig(network).fullNode
getRpcUrl(network) ==
  LET r == getNetworkConfig(network) IN
  [threw |-> r.threw, value |-> r.config.fullNode, error |-> r.error]

\* what getCurrentBlock of the full node answers: a failure or a block
\* with its number
CurrentBlockOutcomes == {CallThrew, CallGave(0), CallGave(57)}

\* the identifiers handed to get_chain_info
ChainInfoInputs ==
  {Omitted, S_mainnet, S_Mainnet, S_tron, S_nile, S_NILE, S_testnet, S_shasta, S_Bogus}

\* the get_chain_info handler: getChainId, then getBlockNumber (getTronWeb
\* of the network and getCurrentBlock on it), then getRpcUrl; any throw
\* becomes the error result
get_chain_info(networkArg, block) ==
  LET network == IF networkArg = Omitted THEN S_mainnet ELSE networkArg
      chainId == getChainId(network)
      e == getTronWebEffect(clientCache, handleCount, network)
      rpcUrl == getRpcUrl(network)
      result ==
        IF e.client.threw
          THEN [isError |-> TRUE, text |-> <<"Error fetching chain info: ">> \o e.client.error]
        ELSE IF block.threw
          THEN [isError |-> TRUE, text |-> <<"Error fetching chain info: ", "getCurrentBlock failed">>]
        ELSE [isError |-> FALSE,
              text |-> [network |-> network, chainId |-> chainId,
                        blockNumber |-> ToDigits(block.value), rpcUrl |-> rpcUrl.value]]
  IN /\ e.count <= MaxHandles
     /\ clientCache' = e.cache
     /\ handleCount' = e.count
     /\ lastClient' = e.client
     /\ lastCall' = Call("getTronWeb", Ended(e.client))
     /\ Returns("get_chain_info", <<networkArg>>, result)

\* ------------------------------------------------------------------------
\* The command-line wrapper (bin/cli.js)
\* ------------------------------------------------------------------------
VARIABLES
  cliPc,           \* "start", "serving" (the module body has run) or "exited"
  cliArgs,         \* process.argv.slice(2)
  cliBuilt,        \* the files present in ../build
  server,          \* the ChildProcess: its script, its state, its killed flag
  cliSpawns,       \* how many times spawn was called
  cliKills,        \* how many signals server.kill() sent
  cliSignals,      \* how many SIGINT/SIGTERM the wrapper has handled
  cliStatus        \* the wrapper's exit status ("none" while it runs)

cliVars == <<cliPc, cliArgs, cliBuilt, server, cliSpawns, cliKills, cliSignals, cliStatus>>

MaxSignals == 3

CliWords == {"--http", "-h", "--port", "8080", "-http"}
CliArgLists == {<< >>} \cup {<<a>> : a \in CliWords} \cup {<<a, b>> : a \in CliWords, b \in CliWords}
BuildFiles == {"index.js", "http-server.js"}

NoServer == [script |-> "none", state |-> "none", killed |-> FALSE]

CliInit ==
  /\ cliPc = "start"
  /\ cliArgs = << >>
  /\ cliBuilt = BuildFiles
  /\ server = NoServer
  /\ cliSpawns = 0
  /\ cliKills = 0
  /\ cliSignals = 0
  /\ cliStatus = "none"

\* Array.prototype.includes
Includes(list, x) == \E i \in 1..Len(list) : list[i] = x

\* args.includes('--http') || args.includes('-h')
httpMode(args) == Includes(args, "--http") \/ Includes(args, "-h")

\* the file name resolved against ../build
scriptPath(args) == IF httpMode(args) THEN "http-server.js" ELSE "index.js"

\* spawn('node', [scriptPath]): the child runs, or the spawn fails and an
\* 'error' event is pending
SpawnOutcomes == {"running", "failed"}

\* a variant of cleanup that kills without looking at server.killed
cleanup_Unguarded(s) ==
  IF s.state = "running"
    THEN [server |-> [s EXCEPT !.killed = TRUE], sent |-> 1]
    ELSE [server |-> s, sent |-> 0]

\* cleanup(): if (!server.killed) server.kill(); kill() sends the signal and
\* sets killed only while the child's handle is open
cleanup(s) ==
  IF s.killed THEN [server |-> s, sent |-> 0]
  ELSE IF s.state = "running"
    THEN [server |-> [s EXCEPT !.killed = TRUE], sent |-> 1]
    ELSE [server |-> s, sent |-> 0]

\* the module body: resolve the script, spawn it and install the handlers, or
\* report the missing build and exit with status 1
CliMain(started) ==
  /\ cliPc = "start"
  /\ IF scriptPath(cliArgs) \in cliBuilt
       THEN /\ server' = [script |-> scriptPath(cliArgs), state |-> started, killed |-> FALSE]
            /\ cliSpawns' = cliSpawns + 1
            /\ cliPc' = "serving"
            /\ cliStatus' = "none"
       ELSE /\ cliPc' = "exited"
            /\ cliStatus' = "1"
            /\ UNCHANGED <<server, cliSpawns>>
  /\ UNCHANGED <<cliArgs, cliBuilt, cliKills, cliSignals>>

\* process.on('SIGINT' | 'SIGTERM', cleanup): the handler replaces the default
\* action, so the wrapper keeps running
SignalArrives(sig) ==
  /\ cliPc = "serving"
  /\ cliSignals < MaxSignals
  /\ sig \in {"SIGINT", "SIGTERM"}
  /\ server' = cleanup(server).server
  /\ cliKills' = cliKills + cleanup(server).sent
  /\ cliSignals' = cliSignals + 1
  /\ UNCHANGED <<cliPc, cliArgs, cliBuilt, cliSpawns, cliStatus>>

\* the child terminates, by itself or after the signal
ServerExits ==
  /\ cliPc = "serving"
  /\ server.state = "running"
  /\ server' = [server EXCEPT !.state = "exited"]
  /\ UNCHANGED <<cliPc, cliArgs, cliBuilt, cliSpawns, cliKills, cliSignals, cliStatus>>

\* the wrapper ends: process.exit(1) from server.on('error'), or the event
\* loop runs empty once the child is gone; 'exit' runs cleanup
ProcessExits ==
  /\ cliPc = "serving"
  /\ server.state \in {"failed", "exited"}
  /\ server' = cleanup(server).server
  /\ cliKills' = cliKills + cleanup(server).sent
  /\ cliPc' = "exited"
  /\ cliStatus' = IF server.state = "failed" THEN "1" ELSE "0"
  /\ UNCHANGED <<cliArgs, cliBuilt, cliSpawns, cliSignals>>

\* ------------------------------------------------------------------------
\* Requests in flight at the same time (the handlers are async functions on
\* one event loop: they interleave at their awaits and nowhere else)
\* ------------------------------------------------------------------------
VARIABLES
  rq               \* per request: where it is, its network, whether the key
                   \* was absent when it came in, and the client it was given

rqVars == <<rq>>

MaxRequests == 2
Requests == 1..MaxRequests
RqNetworks == {S_nile, S_Bogus}

IdleRequest == [pc |-> "idle", network |-> DEFAULT_NETWORK, missed |-> FALSE, client |-> NoClient]

RqInit == rq = [r \in Requests |-> IdleRequest]

\* a variant in which the poll keeps the thread while it sleeps
EventLoopBusy_WhileSleeping == wtPc = "sleep"

\* waitForTransaction holds the thread in none of its states: its lookup and
\* its sleep are awaited promises
EventLoopBusy == FALSE

\* a request comes in: its handler runs up to an await that precedes its
\* first use of the client cache
ReqStart(r, network) ==
  /\ ~EventLoopBusy
  /\ rq[r].pc = "idle"
  /\ rq' = [rq EXCEPT ![r] = [pc |-> "called", network |-> network,
                              missed |-> CacheKey(network) \notin DOMAIN clientCache,
                              client |-> NoClient]]
  /\ UNCHANGED cacheVars

\* the handler goes on: getTronWeb(network) runs to its return, and the call
\* on the client is issued and awaited, or the exception ends the request
ReqGetTronWeb(r) ==
  /\ ~EventLoopBusy
  /\ rq[r].pc = "called"
  /\ getTronWeb(rq[r].network)
  /\ rq' = [rq EXCEPT ![r].client = lastClient',
                      ![r].pc = IF lastClient'.threw THEN "done" ELSE "awaiting"]

\* the awaited call on the client settles and the handler builds its envelope
ReqSettles(r) ==
  /\ ~EventLoopBusy
  /\ rq[r].pc = "awaiting"
  /\ rq' = [rq EXCEPT ![r].pc = "done"]
  /\ UNCHANGED cacheVars

\* the envelope is taken
ReqReturns(r) ==
  /\ rq[r].pc = "done"
  /\ rq' = [rq EXCEPT ![r] = IdleRequest]
  /\ UNCHANGED cacheVars

\* ------------------------------------------------------------------------
\* Specifications
\* ------------------------------------------------------------------------
vars ==
  <<clientCache, handleCount, lastClient, lastCall, env, walletResult, walletPc,
    mcCalls, mcAddress, mcVersion, mcGlobalAllow, mcNetwork, mcPc, mcPath,
    mcRequest, mcResponse, mcSettled, mcResult, mcOutcome, mcLog,
    wtPc, wtNetwork, wtI, wtLookups, wtElapsed, wtLast, wtError,
    hTool, hNetwork, hPc, hEnvelope, hEscaped, hTrace, registeredTools,
    fnName, fnArgs, fnResult,
    cliPc, cliArgs, cliBuilt, server, cliSpawns, cliKills, cliSignals, cliStatus, rq>>

NoEnv == [TRON_PRIVATE_KEY |-> Unset, TRON_MNEMONIC |-> Unset, TRON_ACCOUNT_INDEX |-> Unset]

InitCache == CacheInit /\ WalletInit /\ env = NoEnv /\ McInit /\ WtInit /\ HInit /\ FnInit /\ CliInit /\ RqInit

NextCache ==
  \E network \in NetworkIds : getTronWeb(network) /\ UNCHANGED <<walletVars, mcVars, wtVars, hVars, fnVars, cliVars, rqVars>>

SpecCache == InitCache /\ [][NextCache]_vars

\* the client functions called in any order under one process environment
InitSigner == CacheInit /\ WalletInit /\ env \in ToolEnvs /\ McInit /\ WtInit /\ HInit /\ FnInit /\ CliInit /\ RqInit

NextSigner ==
  \/ \E network \in ToolNetworks :
       getTronWeb(network) /\ UNCHANGED <<walletVars, mcVars, wtVars, hVars, fnVars, cliVars, rqVars>>
  \/ \E privateKey \in SignerKeys, network \in ToolNetworks :
       getWallet(privateKey, network) /\ UNCHANGED <<walletVars, mcVars, wtVars, hVars, fnVars, cliVars, rqVars>>
  \/ \E signed \in SignOutcomes :
       signMessage(signed) /\ UNCHANGED <<walletVars, mcVars, wtVars, hVars, fnVars, cliVars, rqVars>>
  \/ \E signed \in SignOutcomes :
       signTypedData(signed) /\ UNCHANGED <<walletVars, mcVars, wtVars, hVars, fnVars, cliVars, rqVars>>

SpecSigner == InitSigner /\ [][NextSigner]_vars

InitWallet == WalletInit /\ CacheInit /\ McInit /\ WtInit /\ HInit /\ FnInit /\ CliInit /\ RqInit

NextWallet == ResolveWallet /\ UNCHANGED <<cacheVars, mcVars, wtVars, hVars, fnVars, cliVars, rqVars>>

SpecWallet == InitWallet /\ [][NextWallet]_vars

InitMulticall == CacheInit /\ WalletInit /\ env = NoEnv /\ McInit /\ WtInit /\ HInit /\ FnInit /\ CliInit /\ RqInit

NextMulticall ==
  \/ /\ mcPc = "idle"
     /\ \E calls \in CallLists, mAddress \in BatchAddresses, version \in {2, 3},
           globalAllowFailure \in BOOLEAN, network \in McNetworks :
          MulticallCall(calls, mAddress, version, globalAllowFailure, network)
     /\ UNCHANGED <<walletVars, wtVars, hVars, fnVars, cliVars, rqVars>>
  \/ /\ mcPc = "batch"
     /\ \E resp \in BatchResponses(mcAddress, Len(mcCalls)) : BatchSettles(resp)
     /\ UNCHANGED <<walletVars, wtVars, hVars, fnVars, cliVars, rqVars>>
  \/ /\ mcPc = "reads"
     /\ \E i \in 1..Len(mcCalls), answer \in ChainAnswers : ReadSettles(i, answer)
     /\ UNCHANGED <<walletVars, wtVars, hVars, fnVars, cliVars, rqVars>>
  \/ FallbackCompletes /\ UNCHANGED <<walletVars, wtVars, hVars, fnVars, cliVars, rqVars>>

SpecMulticall == InitMulticall /\ [][NextMulticall]_vars

InitWait == CacheInit /\ WalletInit /\ env = NoEnv /\ McInit /\ WtInit /\ HInit /\ FnInit /\ CliInit /\ RqInit

NextWait ==
  \/ \E network \in WtNetworks : WaitStart(network) /\ UNCHANGED <<walletVars, mcVars, hVars, fnVars, cliVars, rqVars>>
  \/ \E info \in LookupOutcomes : LookupSettles(info) /\ UNCHANGED <<walletVars, mcVars, hVars, fnVars, cliVars, rqVars>>
  \/ TimerFires /\ UNCHANGED <<walletVars, mcVars, hVars, fnVars, cliVars, rqVars>>

\* the caller makes the call, every lookup settles and every timer fires
WaitFairness ==
  /\ WF_vars(\E network \in WtNetworks :
               WaitStart(network) /\ UNCHANGED <<walletVars, mcVars, hVars, fnVars, cliVars, rqVars>>)
  /\ WF_vars(\E info \in LookupOutcomes :
               LookupSettles(info) /\ UNCHANGED <<walletVars, mcVars, hVars, fnVars, cliVars, rqVars>>)
  /\ WF_vars(TimerFires /\ UNCHANGED <<walletVars, mcVars, hVars, fnVars, cliVars, rqVars>>)

SpecWait == InitWait /\ [][NextWait]_vars /\ WaitFairness

InitTools == CacheInit /\ WalletInit /\ env \in ToolEnvs /\ McInit /\ WtInit /\ HInit /\ FnInit /\ CliInit /\ RqInit

NextTools ==
  \/ registerTRONTools /\ UNCHANGED <<cacheVars, walletVars, mcVars, wtVars, fnVars, cliVars, rqVars>>
  \/ /\ hPc = "idle"
     /\ \E tool \in Tools, network \in ToolNetworks :
          \E failAt \in 0..FallibleCount[tool] : InvokeTool(tool, network, failAt)
     /\ UNCHANGED <<mcVars, wtVars, fnVars, cliVars, rqVars>>
  \/ HandlerReturns /\ UNCHANGED <<mcVars, wtVars, fnVars, cliVars, rqVars>>

SpecTools == InitTools /\ [][NextTools]_vars

\* calls of getNetworkConfig with any identifier
InitRegistry == CacheInit /\ WalletInit /\ env = NoEnv /\ McInit /\ WtInit /\ HInit /\ FnInit /\ CliInit /\ RqInit

NextRegistry ==
  \E arg \in RegistryInputs :
    getNetworkConfigCall(arg) /\ UNCHANGED <<cacheVars, walletVars, mcVars, wtVars, hVars, cliVars, rqVars>>

SpecRegistry == InitRegistry /\ [][NextRegistry]_vars

\* conversions of hex and Base58 addresses in any order
InitAddress == CacheInit /\ WalletInit /\ env = NoEnv /\ McInit /\ WtInit /\ HInit /\ FnInit /\ CliInit /\ RqInit

NextAddress ==
  \/ \E address \in HexInputs \cup Base58Inputs :
       toHexAddressCall(address) /\ UNCHANGED <<cacheVars, walletVars, mcVars, wtVars, hVars, cliVars, rqVars>>
  \/ \E address \in HexInputs \cup Base58Inputs :
       toBase58AddressCall(address) /\ UNCHANGED <<cacheVars, walletVars, mcVars, wtVars, hVars, cliVars, rqVars>>

SpecAddress == InitAddress /\ [][NextAddress]_vars

\* balance queries, directly and through the get_balance tool
InitBalance == CacheInit /\ WalletInit /\ env = NoEnv /\ McInit /\ WtInit /\ HInit /\ FnInit /\ CliInit /\ RqInit

NextBalance ==
  \/ \E outcome \in BalanceOutcomes :
       getTRXBalanceCall(outcome) /\ UNCHANGED <<cacheVars, walletVars, mcVars, wtVars, hVars, cliVars, rqVars>>
  \/ \E outcome \in BalanceOutcomes :
       get_balanceCall(outcome) /\ UNCHANGED <<cacheVars, walletVars, mcVars, wtVars, hVars, cliVars, rqVars>>

SpecBalance == InitBalance /\ [][NextBalance]_vars

\* the wrapper started with any arguments over any state of the build directory
InitCli ==
  /\ CacheInit /\ WalletInit /\ env = NoEnv /\ McInit /\ WtInit /\ HInit /\ FnInit /\ RqInit
  /\ cliPc = "start"
  /\ cliArgs \in CliArgLists
  /\ cliBuilt \in SUBSET BuildFiles
  /\ server = NoServer
  /\ cliSpawns = 0
  /\ cliKills = 0
  /\ cliSignals = 0
  /\ cliStatus = "none"

NextCli ==
  \/ \E started \in SpawnOutcomes :
       CliMain(started) /\ UNCHANGED <<cacheVars, walletVars, mcVars, wtVars, hVars, fnVars, rqVars>>
  \/ \E sig \in {"SIGINT", "SIGTERM"} :
       SignalArrives(sig) /\ UNCHANGED <<cacheVars, walletVars, mcVars, wtVars, hVars, fnVars, rqVars>>
  \/ ServerExits /\ UNCHANGED <<cacheVars, walletVars, mcVars, wtVars, hVars, fnVars, rqVars>>
  \/ ProcessExits /\ UNCHANGED <<cacheVars, walletVars, mcVars, wtVars, hVars, fnVars, rqVars>>

SpecCli == InitCli /\ [][NextCli]_vars

\* get_block with any identifier, with and without a network
InitBlock ==
  CacheInit /\ WalletInit /\ env = NoEnv /\ McInit /\ WtInit /\ HInit /\ FnInit /\ CliInit /\ RqInit

NextBlock ==
  \E blockIdentifier \in BlockIds, networkArg \in {Omitted, S_nile} :
    get_blockCall(blockIdentifier, networkArg)
      /\ UNCHANGED <<cacheVars, walletVars, mcVars, wtVars, hVars, cliVars, rqVars>>

SpecBlock == InitBlock /\ [][NextBlock]_vars

\* get_chain_info with any identifier and any answer of the full node
InitChainInfo ==
  CacheInit /\ WalletInit /\ env = NoEnv /\ McInit /\ WtInit /\ HInit /\ FnInit /\ CliInit /\ RqInit

NextChainInfo ==
  \E networkArg \in ChainInfoInputs, block \in CurrentBlockOutcomes :
    get_chain_info(networkArg, block)
      /\ UNCHANGED <<walletVars, mcVars, wtVars, hVars, cliVars, rqVars>>

SpecChainInfo == InitChainInfo /\ [][NextChainInfo]_vars

\* token transfers over every way the four awaited calls can settle
InitTransfer ==
  CacheInit /\ WalletInit /\ env = NoEnv /\ McInit /\ WtInit /\ HInit /\ FnInit /\ CliInit /\ RqInit

NextTransfer ==
  \E to \in Recipients, amount \in Amounts, at \in {CallThrew, CallGave("contract")},
     send \in SendOutcomes, symbol \in SymbolOutcomes, decimals \in DecimalsOutcomes :
    transferTRC20Call(to, amount, at, send, symbol, decimals)
      /\ UNCHANGED <<cacheVars, walletVars, mcVars, wtVars, hVars, cliVars, rqVars>>

SpecTransfer == InitTransfer /\ [][NextTransfer]_vars

\* batched multicalls over every combination of version, global flag and
\* per-descriptor flags
InitBatch ==
  CacheInit /\ WalletInit /\ env = NoEnv /\ McInit /\ WtInit /\ HInit /\ FnInit /\ CliInit /\ RqInit

NextBatch ==
  \E calls \in FlaggedCallLists, versionArg \in VersionArgs, allowFailureArg \in AllowFailureArgs :
    multicallRequestCall(calls, versionArg, allowFailureArg)
      /\ UNCHANGED <<cacheVars, walletVars, mcVars, wtVars, hVars, cliVars, rqVars>>

SpecBatch == InitBatch /\ [][NextBatch]_vars

\* requests and one confirmation poll, interleaved at their awaits
InitRequests ==
  CacheInit /\ WalletInit /\ env = NoEnv /\ McInit /\ WtInit /\ HInit /\ FnInit /\ CliInit /\ RqInit

NextRequests ==
  \/ \E r \in Requests, network \in RqNetworks :
       ReqStart(r, network) /\ UNCHANGED <<walletVars, mcVars, wtVars, hVars, fnVars, cliVars>>
  \/ \E r \in Requests :
       ReqGetTronWeb(r) /\ UNCHANGED <<walletVars, mcVars, wtVars, hVars, fnVars, cliVars>>
  \/ \E r \in Requests :
       ReqSettles(r) /\ UNCHANGED <<walletVars, mcVars, wtVars, hVars, fnVars, cliVars>>
  \/ \E r \in Requests :
       ReqReturns(r) /\ UNCHANGED <<walletVars, mcVars, wtVars, hVars, fnVars, cliVars>>
  \/ \E network \in RqNetworks :
       WaitStart(network) /\ UNCHANGED <<walletVars, mcVars, hVars, fnVars, cliVars, rqVars>>
  \/ \E info \in LookupOutcomes :
       LookupSettles(info) /\ UNCHANGED <<walletVars, mcVars, hVars, fnVars, cliVars, rqVars>>
  \/ TimerFires /\ UNCHANGED <<walletVars, mcVars, hVars, fnVars, cliVars, rqVars>>

SpecRequests == InitRequests /\ [][NextRequests]_vars

\* ------------------------------------------------------------------------
\* Properties of the multicall aggregator
\* ------------------------------------------------------------------------
mcDone == mcPc = "done"
mcResolved == mcPc = "done" /\ mcOutcome = "resolved"
mcResponded == mcResponse # NoResponse
AbiNames == {TEST_ABI[i].name : i \in 1..Len(TEST_ABI)}
ArgCount(fn) == IF fn = "g" THEN 1 ELSE 0

\* the entry the fallback owes descriptor i, written out from the settled read
ExpectedFallbackEntry(i) ==
  IF mcSettled[i].status = "fulfilled"
    THEN [success |-> TRUE, result |-> mcSettled[i].value, error |-> << >>]
    ELSE [success |-> FALSE, result |-> << >>,
          error |-> <<"Call to ", mcCalls[i].functionName, " failed: ">> \o mcSettled[i].reason]

ResultIsFallback ==
  /\ mcPath = "fallback"
  /\ DOMAIN mcSettled = 1..Len(mcCalls)
  /\ Len(mcResult) = Len(mcCalls)
  /\ \A i \in 1..Len(mcCalls) : mcResult[i] = ExpectedFallbackEntry(i)

\* C1: whenever multicall resolves, the array has exactly one entry per
\* descriptor, entry i being the outcome of calls[i] on either path: a failure
\* entry names calls[i].functionName, and on the fallback path entry i is the
\* mapping of the i-th read.
C1_ResultMatchesCalls ==
  mcResolved =>
    /\ Len(mcResult) = Len(mcCalls)
    /\ \A i \in 1..Len(mcResult) :
         /\ i <= Len(mcCalls)
         /\ ~mcResult[i].success => mcResult[i].error[2] = mcCalls[i].functionName
    /\ mcPath = "fallback" => ResultIsFallback

\* what the outer catch of the batched attempt sees: a function missing from
\* the ABI, arguments that do not encode, a batch call that throws, or a
\* record beyond the last descriptor
EscapingRaise ==
  \/ \E i \in 1..Len(mcCalls) : mcCalls[i].functionName \notin AbiNames
  \/ \E i \in 1..Len(mcCalls) : Len(mcCalls[i].args) # ArgCount(mcCalls[i].functionName)
  \/ mcResponded /\ mcResponse.threw
  \/ mcResponded /\ Len(FinalResults(mcResponse)) > Len(mcCalls)

\* a per-call return value that was decoded and did not decode
DecodeRaise ==
  /\ mcResponded /\ ~mcResponse.threw
  /\ \E i \in 1..Len(FinalResults(mcResponse)) :
       /\ i <= Len(mcCalls)
       /\ FinalResults(mcResponse)[i].success
       /\ FinalResults(mcResponse)[i].returnData = "0xbad"

BatchAttempted == mcAddress # "" /\ ~getNetworkConfig(mcNetwork).threw

FellBack ==
  /\ mcOutcome = "resolved"
  /\ ResultIsFallback
  /\ Len(mcLog) = 1

\* C2 as stated: with a batch-contract address, anything raised in the batched
\* attempt, a failed decoding of a per-call return value included, makes
\* multicall abandon the attempt and return the fallback's entries.
C2_AnyRaiseFallsBack ==
  (mcDone /\ BatchAttempted /\ (EscapingRaise \/ DecodeRaise)) => FellBack

\* C2 as amended: with a batch-contract address, a raise that reaches the
\* outer catch (missing function, encoding failure, failing batch call, a
\* record beyond the descriptors) makes multicall log the error and resolve to
\* the fallback's entries, never rejecting and never mixing paths; a return
\* value that fails to decode is instead reported in its own entry of the
\* batched result.
C2_EscapingRaiseFallsBack ==
  /\ (mcDone /\ BatchAttempted /\ EscapingRaise) => FellBack
  /\ (mcDone /\ BatchAttempted /\ ~EscapingRaise) =>
       /\ mcPath = "batched" /\ mcOutcome = "resolved" /\ mcLog = << >>
       /\ \A i \in 1..Len(mcResult) :
            (FinalResults(mcResponse)[i].success /\ FinalResults(mcResponse)[i].returnData = "0xbad")
              => (~mcResult[i].success /\ mcResult[i].error[1] = "Failed to decode "
                  /\ mcResult[i].error[2] = mcCalls[i].functionName)

\* the batch call to an address that is no batch contract threw, and the
\* fallback's read succeeded
C2_Witness ==
  /\ mcDone /\ mcAddress = "TOther" /\ mcResponded /\ mcResponse.threw
  /\ FellBack /\ Len(mcResult) = 1 /\ mcResult[1].success

\* C3: without a batch-contract address no call is made on a batch contract
\* and the result is, entry by entry, what readContract gives for that
\* descriptor: {success: true, result: v} for a read that returns v, a failure
\* entry for a read that fails.
C3_NoAddressIsPlainReads ==
  mcAddress = "" =>
    /\ mcRequest = NoRequest /\ ~mcResponded /\ mcPath # "batched"
    /\ mcPc \in {"reads", "done"} =>
         \A i \in 1..Len(mcCalls) :
           \/ mcSettled[i].status = "pending"
           \/ \E answer \in ChainAnswers :
                mcSettled[i] = readContract(mcCalls[i], mcNetwork, clientCache, answer)
    /\ mcDone => (mcOutcome = "resolved" /\ ResultIsFallback)

C3_Witness ==
  /\ mcDone /\ mcAddress = "" /\ Len(mcCalls) = 2 /\ ~getNetworkConfig(mcNetwork).threw
  /\ mcResult[1].success /\ ~mcResult[2].success

\* C4: one descriptor's failure is reported in its own entry only.  On the
\* fallback path every read is issued and the result waits for all of them,
\* a rejected read giving a failure entry naming its function; on the batched
\* path a record with success = false gives a failure entry naming its
\* function and every other record is still decoded.
C4_FailureStaysInItsEntry ==
  /\ (mcPath = "fallback" /\ mcPc \in {"reads", "done"}) => DOMAIN mcSettled = 1..Len(mcCalls)
  /\ (mcPath = "fallback" /\ mcDone) =>
       /\ \A i \in 1..Len(mcCalls) : mcSettled[i].status # "pending"
       /\ Len(mcResult) = Len(mcCalls)
       /\ \A i \in 1..Len(mcCalls) :
            /\ mcResult[i].success = (mcSettled[i].status = "fulfilled")
            /\ mcSettled[i].status = "rejected" =>
                 (mcResult[i].error[1] = "Call to " /\ mcResult[i].error[2] = mcCalls[i].functionName)
  /\ (mcPath = "batched" /\ mcDone) =>
       /\ mcOutcome = "resolved"
       /\ Len(mcResult) = Len(FinalResults(mcResponse))
       /\ \A i \in 1..Len(mcResult) :
            /\ ~FinalResults(mcResponse)[i].success =>
                 mcResult[i] = EntryFailed(<<"Call to ", mcCalls[i].functionName, " failed in multicall">>)
            /\ (FinalResults(mcResponse)[i].success /\ FinalResults(mcResponse)[i].returnData = "0xv1")
                 => mcResult[i].success

\* a fallback in which the first read was rejected by the chain and the second
\* one still came back with its value
C4_Witness ==
  /\ mcDone /\ mcPath = "fallback" /\ Len(mcCalls) = 2
  /\ mcSettled[1] = Rejected(<<"Error: ", "Read contract failed: ", "REVERT">>)
  /\ mcResult[2] = EntryOk(<<"v1">>)

\* ------------------------------------------------------------------------
\* Properties of the wallet resolver
\* ------------------------------------------------------------------------
OnlyKey(e) == [TRON_PRIVATE_KEY |-> e.TRON_PRIVATE_KEY, TRON_MNEMONIC |-> Unset,
               TRON_ACCOUNT_INDEX |-> Unset]

\* C7: with a private key configured, the outcome of resolution is the one
\* the private key gives on its own, whatever else is configured.
C7_KeyAloneDecides ==
  (walletPc = "done" /\ Truthy(env.TRON_PRIVATE_KEY)) =>
    walletResult = getConfiguredWallet(OnlyKey(env))

\* C8 as stated: resolution succeeds only if exactly one of the two secrets
\* is present.
C8_ExactlyOneSecret ==
  (walletPc = "done" /\ ~walletResult.threw) =>
    (Truthy(env.TRON_PRIVATE_KEY) # Truthy(env.TRON_MNEMONIC))

\* C8 as amended: resolution succeeds only if at least one of the two secrets
\* is present; with neither it fails with the configuration error, and with
\* both it can succeed.
C8_AtLeastOneSecret ==
  /\ (walletPc = "done" /\ ~walletResult.threw) =>
       (Truthy(env.TRON_PRIVATE_KEY) \/ Truthy(env.TRON_MNEMONIC))
  /\ (walletPc = "done" /\ ~Truthy(env.TRON_PRIVATE_KEY) /\ ~Truthy(env.TRON_MNEMONIC)) =>
       walletResult.threw

C8_Witness ==
  /\ walletPc = "done" /\ ~Truthy(env.TRON_PRIVATE_KEY) /\ ~Truthy(env.TRON_MNEMONIC)
  /\ ~InvalidAccountIndex(ParseInt10(IF Truthy(env.TRON_ACCOUNT_INDEX)
                                       THEN env.TRON_ACCOUNT_INDEX.val ELSE <<"0">>))
  /\ walletResult.threw

\* ------------------------------------------------------------------------
\* Properties of the client cache
\* ------------------------------------------------------------------------
\* C10: two cached identifiers that resolve to the same NetworkConfig hold the
\* same handle, so the cache holds at most one handle per supported network.
C10_OneHandlePerNetwork ==
  \A k1 \in DOMAIN clientCache, k2 \in DOMAIN clientCache :
    getNetworkConfig(k1).config = getNetworkConfig(k2).config =>
      clientCache[k1].id = clientCache[k2].id

\* ------------------------------------------------------------------------
\* Properties of confirmation polling
\* ------------------------------------------------------------------------
wtTerminated == wtPc \in {"returned", "thrown"}
wtPolling == ~getNetworkConfig(wtNetwork).threw

\* C9: waitForTransaction terminates; it returns at the first lookup that
\* gives a record with an id; if none of 30 lookups, 2000 ms apart, gives one
\* (a lookup that throws counts as failed) it throws the timeout error naming
\* the hash and 60000 ms; it never issues more than 30 lookups.
C9_PollingTerminates ==
  /\ [](wtLookups <= 30)
  /\ [](Confirmed(wtLast) => wtPc = "returned")
  /\ [](wtPc = "returned" => (Confirmed(wtLast) /\ wtLookups = wtI + 1 /\ wtElapsed = 2000 * wtI))
  /\ []((wtPc = "thrown" /\ wtPolling) =>
          /\ ~Confirmed(wtLast) /\ wtLookups = 30 /\ wtElapsed = 60000
          /\ wtError = <<"Transaction ", TxHash, " not confirmed after ", 60000, "ms">>)
  /\ [](wtPc \in {"lookup", "sleep"} => (wtPolling /\ wtLookups = wtI + 1 /\ wtElapsed = 2000 * wtI))
  /\ <>wtTerminated

\* the thirtieth lookup threw and the call ended with the timeout error
C9_Witness ==
  /\ wtPc = "thrown" /\ wtPolling /\ wtLookups = 30 /\ wtLast = LookupThrew
  /\ wtError = TimeoutError

\* ------------------------------------------------------------------------
\* Properties of the tool handlers
\* ------------------------------------------------------------------------
hDone == hPc = "done"
InTrace(events) == \E p \in 1..Len(hTrace) : hTrace[p] \in events
WalletTools == {"get_wallet_address", "write_contract", "transfer_trx", "transfer_trc20",
                "sign_message"}
NetworkTools == Tools \ {"get_wallet_address", "get_supported_networks", "convert_address",
                         "sign_message"}
WriteTools == {"write_contract", "transfer_trx", "transfer_trc20", "sign_message"}
SigningEvents == {"getWallet", "newSigner", "send", "sign"}

\* C5: no handler lets an exception escape; a failure of the wallet resolver,
\* of the network registry or of a call gives an envelope with isError = true
\* and a message, a run without failure an envelope without isError.
C5_HandlersNeverThrow ==
  hDone =>
    /\ ~hEscaped
    /\ hEnvelope.text # << >>
    /\ (hEnvelope.isError = "true") = InTrace({"threw"})
    /\ hEnvelope.isError = "true" => (hEnvelope.text[1] = ErrorPrefix(hTool) /\ Len(hEnvelope.text) > 1)
    /\ hEnvelope.isError \in {"true", "undefined"}
    /\ (hTool \in WalletTools /\ getConfiguredWallet(env).threw) => hEnvelope.isError = "true"
    /\ (hTool \in NetworkTools /\ getNetworkConfig(hNetwork).threw) => hEnvelope.isError = "true"

\* get_chain_info on an unsupported network resolved to an error envelope
C5_Witness ==
  /\ hDone /\ hTool = "get_chain_info" /\ hNetwork = S_Bogus
  /\ hEnvelope.isError = "true" /\ ~hEscaped

\* C6: in write_contract, transfer_trx, transfer_trc20 and sign_message a
\* failed wallet resolution gives an error envelope and no signing client, no
\* submission and no signature; a successful resolution precedes each of them.
C6_NoSigningWithoutWallet ==
  (hDone /\ hTool \in WriteTools) =>
    /\ getConfiguredWallet(env).threw =>
         (hEnvelope.isError = "true" /\ ~hEscaped /\ ~InTrace(SigningEvents))
    /\ \A p \in 1..Len(hTrace) :
         hTrace[p] \in SigningEvents =>
           \E q \in 1..(p - 1) : hTrace[q] = "wallet" /\ hTrace[q + 1] # "threw"

\* transfer_trx with an invalid private key configured stopped at resolution
C6_Witness ==
  /\ hDone /\ hTool = "transfer_trx" /\ env.TRON_PRIVATE_KEY = EnvVal(K_zz)
  /\ hTrace = <<"wallet", "threw">> /\ hEnvelope.isError = "true"

\* ------------------------------------------------------------------------
\* Properties of the signing clients
\* ------------------------------------------------------------------------
SigningOps == {"getWallet", "signMessage", "signTypedData"}
KeylessCache == \A k \in DOMAIN clientCache : clientCache[k].privateKey = << >>

\* C11: getWallet, signMessage and signTypedData leave the client cache as it
\* was, the handle each of them constructs is a new one that the cache does
\* not hold and that embeds the key, and no handle in the cache ever embeds a
\* private key.
C11_SigningClientNeverCached ==
  /\ []KeylessCache
  /\ [][lastCall'.op \in SigningOps =>
         /\ clientCache' = clientCache
         /\ ~lastClient'.threw =>
              /\ lastClient'.id = handleCount + 1 /\ handleCount' = handleCount + 1
              /\ lastClient'.privateKey # << >>
              /\ \A k \in DOMAIN clientCache' : clientCache'[k].id # lastClient'.id]_vars

\* getWallet on a network whose reading client is already cached returned a
\* handle holding the key without its 0x prefix
C11_Witness ==
  /\ lastCall = Call("getWallet", "returned") /\ lastClient.privateKey = K_a1
  /\ lastClient.fullHost = NETWORKS[S_mainnet].fullNode
  /\ S_mainnet \in DOMAIN clientCache /\ clientCache[S_mainnet].id # lastClient.id

\* ------------------------------------------------------------------------
\* Properties of the network registry
\* ------------------------------------------------------------------------
Resolved == fnName = "getNetworkConfig"
Spelt(words) == UNION {CaseVariants(w) : w \in words}
Recognized == Spelt({S_mainnet, S_nile, S_shasta, S_tron, S_trx, S_testnet})

\* C12: an identifier that is neither a name nor an alias, in any case,
\* makes getNetworkConfig throw 'Unsupported network: ' followed by the
\* identifier exactly as passed, and no config is returned.
C12_UnknownIdIsNamedExactly ==
  (Resolved /\ fnArgs[1] \notin Recognized \cup {Omitted}) =>
    /\ fnResult.threw
    /\ fnResult.error = <<"Unsupported network: ", fnArgs[1]>>
    /\ fnResult.config \notin {NETWORKS[n] : n \in TronNetwork}

\* 'Bogus' was rejected under its own spelling
C12_Witness ==
  /\ Resolved /\ fnArgs = <<S_Bogus>> /\ fnResult.threw
  /\ fnResult.error[2] = S_Bogus /\ ToLowerCase(S_Bogus) # S_Bogus

\* C13: in any case, mainnet, tron and trx resolve to the Mainnet entry of
\* NETWORKS, nile and testnet to the Nile entry, shasta to the Shasta entry,
\* and a call without identifier to the entry of the default network,
\* Mainnet.
C13_NamesAndAliasesResolve ==
  Resolved =>
    /\ fnArgs[1] \in Spelt({S_mainnet, S_tron, S_trx}) =>
         (~fnResult.threw /\ fnResult.config = NETWORKS[S_mainnet])
    /\ fnArgs[1] \in Spelt({S_nile, S_testnet}) =>
         (~fnResult.threw /\ fnResult.config = NETWORKS[S_nile])
    /\ fnArgs[1] \in Spelt({S_shasta}) =>
         (~fnResult.threw /\ fnResult.config = NETWORKS[S_shasta])
    /\ fnArgs[1] = Omitted =>
         (~fnResult.threw /\ fnResult.config = NETWORKS[S_mainnet] /\ DEFAULT_NETWORK = S_mainnet)
    /\ (NETWORKS[S_mainnet].name = "Mainnet" /\ NETWORKS[S_nile].name = "Nile"
         /\ NETWORKS[S_shasta].name = "Shasta")

\* the alias testnet in mixed case resolved to the Nile entry
C13_Witness ==
  /\ Resolved /\ fnArgs = <<<<"T","e","s","t","N","e","t">>>> /\ ~fnResult.threw
  /\ fnResult.config.fullNode = "https://nile.trongrid.io"

\* ------------------------------------------------------------------------
\* Properties of address conversion
\* ------------------------------------------------------------------------
\* hex forms the conversion is documented for: the 41-prefixed form and the
\* 0x-prefixed form
PrefixedHex == {ADDRESS_PREFIX \o x : x \in Bodies} \cup {<<"0","x">> \o x : x \in Bodies}
CanonicalHex == {ADDRESS_PREFIX \o ToLowerCase(x) : x \in Bodies}
Canonical(h) == ADDRESS_PREFIX \o ToLowerCase(SliceFrom(h, 2))

\* C14 as stated: converting a Base58 address to hex and back gives the
\* address, and converting a hex address to Base58 and back gives the hex
\* address.
C14_RoundTrips ==
  /\ (fnName = "toHexAddress" /\ fnArgs[1] \in Base58Inputs) =>
       toBase58Address(fnResult) = fnArgs[1]
  /\ (fnName = "toBase58Address" /\ fnArgs[1] \in PrefixedHex) =>
       toHexAddress(fnResult) = fnArgs[1]

\* C14 as amended: a Base58 address converted to hex and back is the same
\* address; a 41-prefixed or 0x-prefixed hex address converted to Base58 and
\* back is its canonical form, 41-prefixed and lower-case, which is the
\* address itself when it was given in that form.
C14_RoundTripsToCanonical ==
  /\ (fnName = "toHexAddress" /\ fnArgs[1] \in Base58Inputs) =>
       (fnResult \in CanonicalHex /\ toBase58Address(fnResult) = fnArgs[1])
  /\ (fnName = "toBase58Address" /\ fnArgs[1] \in PrefixedHex) =>
       (fnResult \in Base58Inputs /\ toHexAddress(fnResult) = Canonical(fnArgs[1]))
  /\ (fnName = "toBase58Address" /\ fnArgs[1] \in CanonicalHex) =>
       toHexAddress(fnResult) = fnArgs[1]

\* a Base58 address was converted to a 41-prefixed hex address
C14_Witness ==
  /\ fnName = "toHexAddress" /\ fnArgs[1] \in Base58Inputs
  /\ StartsWith(fnResult, ADDRESS_PREFIX) /\ Len(fnResult) = 42 /\ fnResult # fnArgs[1]

\* C15: the four hex spellings of one 20-byte address, with or without 0x
\* and with or without the 41 version byte, are converted to the same Base58
\* address.
C15_AllSpellingsAgree ==
  fnName = "toBase58Address" =>
    \A x \in Bodies :
      fnArgs[1] \in Spellings(x) =>
        /\ fnResult = Base58Of(x)
        /\ \A other \in Spellings(x) : toBase58Address(other) = fnResult

\* ------------------------------------------------------------------------
\* Properties of the balance query
\* ------------------------------------------------------------------------
RECURSIVE PadEnd(_, _)
PadEnd(s, len) == IF Len(s) >= len THEN s ELSE PadEnd(s \o <<"0">>, len)

\* the digits of a decimal string multiplied by 1,000,000; the empty string
\* when the product is no integer or the string is no decimal
TimesMillion(str) ==
  LET dots == {i \in 1..Len(str) : str[i] = "."}
      dot == IF dots = {} THEN Len(str) + 1 ELSE CHOOSE i \in dots : TRUE
      integer == SubSeq(str, 1, dot - 1)
      fraction == SubSeq(str, dot + 1, Len(str))
  IN IF str = Undefined \/ Cardinality(dots) > 1 \/ integer = << >> \/ Len(fraction) > 6
          \/ \E i \in 1..Len(str) : str[i] \notin Digits \cup {"."}
       THEN << >>
       ELSE StripLeadingZeros(integer \o PadEnd(fraction, 6))

\* C16: getTRXBalance yields {wei, formatted}; get_balance reports
\* balance.sun, the integer as a string, and balance.trx, the formatted
\* string, both present, with sun = trx * 1,000,000; a balance of zero is a
\* normal result.
C16_BalanceInBothUnits ==
  /\ (fnName = "getTRXBalance" /\ ~fnArgs[1].threw) =>
       /\ ~fnResult.threw
       /\ DOMAIN fnResult.value = {"wei", "formatted"}
       /\ fnResult.value.wei = fnArgs[1].balance
  /\ (fnName = "get_balance" /\ ~fnArgs[1].threw) =>
       /\ fnResult.isError = "undefined"
       /\ DOMAIN fnResult.json.balance = {"sun", "trx"}
       /\ fnResult.json.balance.sun = ToDigits(fnArgs[1].balance)
       /\ TimesMillion(fnResult.json.balance.trx) = fnResult.json.balance.sun

\* ------------------------------------------------------------------------
\* Properties of tool registration
\* ------------------------------------------------------------------------
ExpectedTools ==
  {"get_wallet_address", "get_chain_info", "get_supported_networks", "get_chain_parameters",
   "convert_address", "get_block", "get_latest_block", "get_balance", "get_token_balance",
   "get_transaction", "get_transaction_info", "read_contract", "multicall", "write_contract",
   "transfer_trx", "transfer_trc20", "sign_message"}

\* C17: once registerTRONTools has run, each of the 17 tool names is
\* registered, once, and no two names share a handler.
C17_AllToolsRegistered ==
  hPc # "starting" =>
    /\ DOMAIN registeredTools = ExpectedTools
    /\ Cardinality(DOMAIN registeredTools) = 17
    /\ \A a \in DOMAIN registeredTools, b \in DOMAIN registeredTools :
         registeredTools[a] = registeredTools[b] => a = b

\* ------------------------------------------------------------------------
\* Properties of the submitting tools
\* ------------------------------------------------------------------------
SubmittingTools == {"write_contract", "transfer_trx", "transfer_trc20"}

\* the handler's submission call returned and did not throw
Submitted ==
  \E p \in 1..Len(hTrace) : hTrace[p] = "send" /\ (p = Len(hTrace) \/ hTrace[p + 1] # "threw")

\* the awaited node calls the handler entered after its submission call
AwaitedAfterSend ==
  {p \in 1..Len(hTrace) :
     /\ hTrace[p] \in {"chain", "waitForTransaction"}
     /\ \E q \in 1..(p - 1) : hTrace[q] = "send"}

\* C18 (as claimed): write_contract, transfer_trx and transfer_trc20 never
\* call waitForTransaction, and once the submission call has returned they
\* await nothing more from the node before they return.
C18_ReturnsAtSubmission ==
  (hDone /\ hTool \in SubmittingTools) =>
    /\ ~InTrace({"waitForTransaction"})
    /\ Submitted => AwaitedAfterSend = {}

\* C18 (amended): none of the three calls waitForTransaction; write_contract
\* and transfer_trx await nothing after the submission call, transfer_trc20
\* awaits at most the two reads of symbol and decimals, and both of them
\* when it returns the identifier.
C18_NoConfirmationWait ==
  (hDone /\ hTool \in SubmittingTools) =>
    /\ ~InTrace({"waitForTransaction"})
    /\ (Submitted /\ hTool # "transfer_trc20") => AwaitedAfterSend = {}
    /\ (Submitted /\ hTool = "transfer_trc20") =>
         /\ Cardinality(AwaitedAfterSend) <= 2
         /\ hEnvelope = OkEnvelope(hTool) => Cardinality(AwaitedAfterSend) = 2

C18_Witness ==
  /\ hDone
  /\ hTool = "write_contract"
  /\ Submitted
  /\ hEnvelope = OkEnvelope(hTool)
  /\ hTrace[Len(hTrace)] = "send"

\* ------------------------------------------------------------------------
\* Properties of the reported failures
\* ------------------------------------------------------------------------
\* the prefix of a reported message tells which operation failed: it is more
\* than the bare word, and no other handler's catch uses it
NamesOperation(prefix, tool) ==
  /\ prefix # "Error: "
  /\ \A t \in Tools : ErrorPrefix(t) = prefix => t = tool

\* C19: whenever a handler reports a failure, nothing escapes it raw, and the
\* reported message starts with a prefix that names the operation that failed.
C19_FailureNamesOperation ==
  (hDone /\ (hEscaped \/ hEnvelope.isError = "true")) =>
    /\ ~hEscaped
    /\ Len(hEnvelope.text) > 1
    /\ NamesOperation(hEnvelope.text[1], hTool)

\* ------------------------------------------------------------------------
\* Properties of an invalid network identifier
\* ------------------------------------------------------------------------
InvalidNetwork(network) == getNetworkConfig(network).threw

\* C20: an operation that is handed an identifier the registry does not
\* know fails instead of producing a normal result: multicall, with or
\* without a batch-contract address, rejects, and a handler that takes a
\* network argument returns a failure envelope.
C20_InvalidNetworkFails ==
  /\ (mcDone /\ InvalidNetwork(mcNetwork)) => mcOutcome = "rejected"
  /\ (hDone /\ hTool \in NetworkTools /\ InvalidNetwork(hNetwork)) =>
       hEnvelope.isError = "true"

\* ------------------------------------------------------------------------
\* Properties of the command-line wrapper
\* ------------------------------------------------------------------------
\* C21: the wrapper spawns at most one subprocess, and exactly one once its
\* body has run over a built server file: the HTTP server when --http or -h
\* is an argument, the stdio server otherwise; after a signal or its own exit
\* a running subprocess has been killed, and the kill is sent at most once;
\* over a missing server file it exits with status 1 and spawns nothing.
C21_OneServerKilledOnce ==
  /\ cliSpawns <= 1
  /\ cliKills <= 1
  /\ (cliPc # "start" /\ scriptPath(cliArgs) \in cliBuilt) =>
       /\ cliSpawns = 1
       /\ server.script =
            (IF \E i \in 1..Len(cliArgs) : cliArgs[i] \in {"--http", "-h"}
               THEN "http-server.js" ELSE "index.js")
  /\ (cliPc # "start" /\ scriptPath(cliArgs) \notin cliBuilt) =>
       /\ cliPc = "exited"
       /\ cliStatus = "1"
       /\ cliSpawns = 0
       /\ server = NoServer
  /\ ((cliSignals > 0 \/ cliPc = "exited") /\ server.state = "running") => server.killed
  /\ server.killed => cliKills = 1

C21_Witness ==
  /\ cliPc = "exited"
  /\ cliSignals = 2
  /\ cliKills = 1
  /\ server.script = "http-server.js"
  /\ server.killed

\* ------------------------------------------------------------------------
\* Properties of requests in flight at the same time
\* ------------------------------------------------------------------------
\* request r has been through getTronWeb and holds a client
Served(r) == rq[r].pc \in {"awaiting", "done"} /\ ~rq[r].client.threw

\* two requests in flight together that both came in before their common
\* key was cached, and that both hold a client now
FirstAccessedTogether(a, b) ==
  /\ a # b
  /\ Served(a) /\ Served(b)
  /\ rq[a].network = rq[b].network
  /\ rq[a].missed /\ rq[b].missed

\* C22 (as claimed): two requests in flight together that first-access one
\* network identifier each construct a handle of their own, the cache
\* keeping the later one.
C22_EachConstructsItsOwn ==
  \A a \in Requests, b \in Requests :
    FirstAccessedTogether(a, b) => rq[a].client.id # rq[b].client.id

\* C22 (amended): getTronWeb runs without yielding, so of two such requests
\* one constructs the handle and the other is given that same handle: both
\* hold the cached handle, and no key is constructed twice.
C22_OneConstructsForBoth ==
  \A a \in Requests, b \in Requests :
    FirstAccessedTogether(a, b) =>
      /\ rq[a].client = rq[b].client
      /\ clientCache[CacheKey(rq[a].network)] = rq[a].client

C22_Witness ==
  \E a \in Requests, b \in Requests :
    /\ FirstAccessedTogether(a, b)
    /\ rq[a].pc = "awaiting" /\ rq[b].pc = "awaiting"
    /\ handleCount = 1


\* the step request r takes next is possible now
CanProceed(r) ==
  CASE rq[r].pc = "idle" -> \E network \in RqNetworks : ENABLED ReqStart(r, network)
    [] rq[r].pc = "called" ->
         getTronWebEffect(clientCache, handleCount, rq[r].network).count <= MaxHandles
           => ENABLED ReqGetTronWeb(r)
    [] rq[r].pc = "awaiting" -> ENABLED ReqSettles(r)
    [] rq[r].pc = "done" -> ENABLED ReqReturns(r)

BatchCalls == fnArgs[1]
RequestedVersion == IF fnArgs[2].given THEN fnArgs[2].val ELSE 3
GlobalTolerance == IF fnArgs[3].given THEN fnArgs[3].val ELSE TRUE
Flag(b) == IF b THEN "true" ELSE "false"
WithoutFlags(calls) == [i \in 1..Len(calls) |-> [calls[i] EXCEPT !.allowFailure = "undefined"]]

\* C24: a batched multicall of version 3 (also when no version is given)
\* invokes aggregate3 with one tuple (target, allowFailure, callData) per
\* descriptor, the flag being the descriptor's own when it has one and the
\* global one otherwise; version 2 invokes tryAggregate with tuples
\* (target, callData) and requireSuccess = not the global tolerance, and the
\* descriptors' flags change nothing.
C24_ConventionFollowsVersion ==
  fnName = "multicall" =>
    /\ Len(fnResult.calls) = Len(BatchCalls)
    /\ RequestedVersion = 3 =>
         /\ fnResult.method = "aggregate3"
         /\ fnResult.requireSuccess = "absent"
         /\ \A i \in 1..Len(BatchCalls) :
              /\ Len(fnResult.calls[i]) = 3
              /\ fnResult.calls[i][1] = BatchCalls[i].address
              /\ fnResult.calls[i][2] =
                   (IF BatchCalls[i].allowFailure \in {"true", "false"}
                      THEN BatchCalls[i].allowFailure ELSE Flag(GlobalTolerance))
    /\ RequestedVersion = 2 =>
         /\ fnResult.method = "tryAggregate"
         /\ fnResult.requireSuccess = Flag(~GlobalTolerance)
         /\ \A i \in 1..Len(BatchCalls) :
              /\ Len(fnResult.calls[i]) = 2
              /\ fnResult.calls[i][1] = BatchCalls[i].address
         /\ fnResult = multicallRequest(WithoutFlags(BatchCalls), fnArgs[2], fnArgs[3])

C24_Witness ==
  /\ fnName = "multicall"
  /\ ~fnArgs[2].given
  /\ fnArgs[3] = Arg(TRUE)
  /\ Len(BatchCalls) = 2
  /\ BatchCalls[1].allowFailure = "false"
  /\ BatchCalls[2].allowFailure = "undefined"
  /\ fnResult.method = "aggregate3"

\* ------------------------------------------------------------------------
\* Properties of the TRC20 transfer
\* ------------------------------------------------------------------------
Before(calls, first, second) ==
  \A j \in 1..Len(calls) : calls[j] = second => \E i \in 1..(j - 1) : calls[i] = first

\* C25: transferTRC20 submits transfer(to, amount) with the caller's amount
\* as given, reads symbol and decimals only after the submission, and once
\* the submission has succeeded it returns the submission's txHash and the
\* raw amount however the two reads turn out.
C25_ReadsOnlyFormat ==
  fnName = "transferTRC20" =>
    /\ fnResult.submitted # << >> => fnResult.submitted = <<fnArgs[1], fnArgs[2]>>
    /\ Before(fnResult.calls, "send", "symbol")
    /\ Before(fnResult.calls, "send", "decimals")
    /\ (~fnArgs[3].threw /\ ~fnArgs[4].threw) =>
         /\ ~fnResult.threw
         /\ fnResult.value.txHash = fnArgs[4].value
         /\ fnResult.value.amount.raw = fnArgs[2]

\* ------------------------------------------------------------------------
\* Properties of the cache over time
\* ------------------------------------------------------------------------
\* C26: no call removes or replaces a cache entry: after any getTronWeb,
\* getWallet or signing call each key cached before still maps to the same
\* handle, a getTronWeb call with that key returns that handle, and the
\* handle points at the endpoint of the NetworkConfig its key resolves to.
C26_EntriesArePermanent ==
  [][\A k \in DOMAIN clientCache :
       /\ k \in DOMAIN clientCache'
       /\ clientCache'[k] = clientCache[k]
       /\ getTronWebEffect(clientCache', handleCount', k).client = clientCache[k]
       /\ clientCache'[k].fullHost = getNetworkConfig(k).config.fullNode]_vars

C26_Witness ==
  /\ lastCall.op = "getTronWeb"
  /\ Cardinality(DOMAIN clientCache) = 2
  /\ handleCount = 3
  /\ \E k \in DOMAIN clientCache : clientCache[k] = lastClient /\ lastClient.id = 1

\* ------------------------------------------------------------------------
\* Properties of the account index
\* ------------------------------------------------------------------------
\* a string that writes a non-negative integer: decimal digits and nothing else
WritesNonNegativeInteger(str) == str # << >> /\ \A i \in 1..Len(str) : str[i] \in Digits

WithIndex(e, index) == [e EXCEPT !.TRON_ACCOUNT_INDEX = index]

OnMnemonicPath(e) == ~Truthy(e.TRON_PRIVATE_KEY) /\ Truthy(e.TRON_MNEMONIC)

\* C27: on the mnemonic path resolution fails for every configured index
\* that does not write a non-negative integer, an index that is not set
\* resolves as index 0, and with a private key configured the index cannot
\* make resolution fail.
C27_IndexMustBeNonNegativeInteger ==
  walletPc = "done" =>
    /\ (OnMnemonicPath(env) /\ Truthy(env.TRON_ACCOUNT_INDEX)
          /\ ~WritesNonNegativeInteger(env.TRON_ACCOUNT_INDEX.val)) => walletResult.threw
    /\ (OnMnemonicPath(env) /\ ~Truthy(env.TRON_ACCOUNT_INDEX)) =>
         walletResult = getConfiguredWallet(WithIndex(env, EnvVal(<<"0">>)))
    /\ (Truthy(env.TRON_PRIVATE_KEY) /\ walletResult.threw) =>
         getConfiguredWallet(WithIndex(env, Unset)).threw

\* ------------------------------------------------------------------------
\* Properties of the block lookup
\* ------------------------------------------------------------------------
AllIn(s, S) == \A i \in 1..Len(s) : s[i] \in S

\* a string of decimal digits
DecimalNumeral(s) == s # << >> /\ AllIn(s, Digits)

\* a block hash: 32 bytes in hex, bare or behind 0x
IsBlockHash(s) ==
  \/ Len(s) = 64 /\ AllIn(s, HexDigits)
  \/ Len(s) = 66 /\ StartsWith(s, <<"0","x">>) /\ AllIn(SliceFrom(s, 2), HexDigits)

\* the base-10 integer at the head of a string: sign and digits
Base10(str) ==
  LET s == SkipSpaces(str)
      body == IF HasAt(s, 1, {"+", "-"}) THEN Tail(s) ELSE s
      run == SubSeq(body, 1, AfterRun(body, 1, Digits) - 1)
  IN IF run = << >> THEN NotANumber
     ELSE Integer(HasAt(s, 1, {"-"}), StripLeadingZeros(run))

\* C28: get_block makes exactly one lookup: by hash exactly when the
\* identifier starts with 0x or is longer than 20 characters and not
\* numeric, otherwise by the number the identifier gives in base 10; a
\* decimal numeral n is looked up as block n on the requested network
\* (mainnet when none is given), and a block hash is never looked up as a
\* number.
C28_OneLookupByKind ==
  fnName = "get_block" =>
    LET id == fnArgs[1]
        lookup == fnResult[1]
    IN /\ Len(fnResult) = 1
       /\ lookup.network = (IF fnArgs[2] = Omitted THEN S_mainnet ELSE fnArgs[2])
       /\ lookup.by = "hash" <=>
            (StartsWith(id, <<"0","x">>) \/ (Len(id) > 20 /\ IsNaNNumber(id)))
       /\ lookup.by = "hash" => lookup.hash = id
       /\ lookup.by = "number" => lookup.number = Base10(id)
       /\ DecimalNumeral(id) =>
            /\ lookup.by = "number"
            /\ lookup.number = Integer(FALSE, StripLeadingZeros(id))
       /\ IsBlockHash(id) => lookup.by = "hash"

\* the networks of the signer specification that the registry resolves
SupportedHere == {n \in ToolNetworks : ~getNetworkConfig(n).threw}

\* C29: a getTronWeb or getWallet call that throws for its network leaves
\* the cache and the handle count as they were, so that every call with a
\* supported identifier made afterwards gives what it would have given
\* before; and no key that does not resolve is ever in the cache.
C29_FailedResolutionChangesNothing ==
  /\ [](\A k \in DOMAIN clientCache : ~getNetworkConfig(k).threw)
  /\ [][(lastCall'.op \in {"getTronWeb", "getWallet"} /\ lastCall'.outcome = "threw") =>
         /\ clientCache' = clientCache
         /\ handleCount' = handleCount
         /\ \A n \in SupportedHere :
              getTronWebEffect(clientCache', handleCount', n)
                = getTronWebEffect(clientCache, handleCount, n)]_vars

C29_Witness ==
  /\ lastCall = Call("getTronWeb", "threw")
  /\ lastClient.error = <<"Unsupported network: ", S_Bogus>>
  /\ DOMAIN clientCache = {S_mainnet}
  /\ handleCount = 2

\* ------------------------------------------------------------------------
\* Properties of get_chain_info
\* ------------------------------------------------------------------------
\* the network a call names
Named(networkArg) == IF networkArg = Omitted THEN DEFAULT_NETWORK ELSE networkArg

\* two identifiers that resolve, and to the same NetworkConfig
SameNetworkConfig(a, b) ==
  /\ ~getNetworkConfig(Named(a)).threw
  /\ ~getNetworkConfig(Named(b)).threw
  /\ getNetworkConfig(Named(a)).config = getNetworkConfig(Named(b)).config

\* C30: a get_chain_info report carries the chainId and the rpcUrl that
\* every identifier of the same NetworkConfig gets, its rpcUrl is the
\* endpoint that was queried, and its chainId is that of no network other
\* than the one of that endpoint.
C30_ChainInfoFollowsResolution ==
  (fnName = "get_chain_info" /\ ~fnResult.isError) =>
    /\ \A other \in ChainInfoInputs :
         SameNetworkConfig(fnArgs[1], other) =>
           /\ getChainId(Named(other)) = fnResult.text.chainId
           /\ getRpcUrl(Named(other)).value = fnResult.text.rpcUrl
    /\ fnResult.text.rpcUrl = lastClient.fullHost
    /\ \A n \in TronNetwork :
         fnResult.text.chainId = getChainId(n) => NETWORKS[n].fullNode = lastClient.fullHost

====
